---- MODULE Spec2Model ----
(***************************************************************************)
(* LOG-SLEUTH analysis request pipeline.                                   *)
(*                                                                         *)
(* Two implementations of "analyze" live in the repository:                *)
(*   fe : src/services/geminiService.ts   analyzeLogs  (browser front end) *)
(*   be : src/unnamed/part_006            GeminiService.analyzeLog (API)   *)
(* Both are modelled; the variable impl says which one an invocation runs. *)
(* The per-user rate limiter in front of the API's analysis creation,      *)
(* rateLimitByUser of src/unnamed/part_005, is modelled beside them.       *)
(*                                                                         *)
(* A text is a sequence of one-character strings.  A JSON object is a      *)
(* record whose DOMAIN is the set of keys present in it.                   *)
(***************************************************************************)
EXTENDS Integers, Sequences, FiniteSets, TLC

(***************************************************************************)
(* Bounds of the model and program constants.                              *)
(***************************************************************************)
\* number of log lines an input of the pipeline is built from
MaxLines == 2
\* number of raw lines of the texts handed to the Preprocessor on its own
MaxRawLines == 4
\* MAX_LOG_SIZE, scaled down from 50000 characters
MAX_LOG_SIZE == 12
\* the characters per line of the "rough estimate", scaled down from 100
LINE_ESTIMATE == 4
\* the characters of a line a fallback entry quotes, scaled down from 100
EXCERPT_LEN == 8
MAX_RETRIES == 2
RETRY_DELAY_BASE == 1000
API_TIMEOUT == 30000
\* lengths of the threat and issue lists handed to the classifier on its own
MaxThreats == 4
MaxIssues == 6
\* numbers of lines of each kind in the logs handed to the fallback analyzers
MaxErrorLines == 4
MaxWarningLines == 3
MaxSecurityLines == 4
\* the per-user limit on analysis creation, scaled down from 10 requests ...
MAX_REQUESTS == 2
\* ... per window of 15 minutes, scaled down to clock ticks
WINDOW_MS == 2
\* the clock stops here, and so many requests are served
MaxClock == 5
MaxServed == 5
\* the scores handed to the validator on its own go this far below 0 and
\* above 100
ScoreMargin == 3
\* number of handleAnalyze calls made in App
MaxCalls == 3

(***************************************************************************)
(* Texts.                                                                  *)
(***************************************************************************)
NL == "\n"

\* whitespace String.prototype.trim removes inside a line
IsSpace(c) == c \in {" ", "\t"}

\* whitespace String.prototype.trim removes from a whole text
IsBlank(c) == IsSpace(c) \/ c = NL

RECURSIVE TrimLeft(_)
TrimLeft(s) ==
  IF s = <<>> THEN <<>>
  ELSE IF IsBlank(Head(s)) THEN TrimLeft(Tail(s)) ELSE s

RECURSIVE TrimRight(_)
TrimRight(s) ==
  IF s = <<>> THEN <<>>
  ELSE IF IsBlank(s[Len(s)]) THEN TrimRight(SubSeq(s, 1, Len(s) - 1)) ELSE s

\* String.prototype.trim
Trim(s) == TrimRight(TrimLeft(s))

\* String.prototype.split('\n'): the empty text splits into one empty line
RECURSIVE SplitFrom(_, _, _)
SplitFrom(s, i, cur) ==
  IF i > Len(s) THEN <<cur>>
  ELSE IF s[i] = NL THEN <<cur>> \o SplitFrom(s, i + 1, <<>>)
  ELSE SplitFrom(s, i + 1, Append(cur, s[i]))

Split(s) == SplitFrom(s, 1, <<>>)

\* Array.prototype.join('\n')
RECURSIVE Join(_)
Join(lines) ==
  IF lines = <<>> THEN <<>>
  ELSE IF Len(lines) = 1 THEN lines[1]
  ELSE lines[1] \o <<NL>> \o Join(Tail(lines))

\* x.slice(-n) of a string or an array: -0 is 0, so slice(-0) keeps everything
SliceLast(xs, n) ==
  IF n = 0 \/ n >= Len(xs) THEN xs
  ELSE SubSeq(xs, Len(xs) - n + 1, Len(xs))

\* x.slice(0, n)
SliceFirst(xs, n) == IF n >= Len(xs) THEN xs ELSE SubSeq(xs, 1, n)

(***************************************************************************)
(* Preprocessor (front end).                                               *)
(***************************************************************************)
NonEmpty(line) == Len(line) > 0

\* lines 84-88: split, trim each line, drop the empty ones, rejoin
cleaned(logs) ==
  LET lines == Split(logs)
      trimmed == [i \in 1..Len(lines) |-> Trim(lines[i])]
  IN Join(SelectSeq(trimmed, NonEmpty))

\* the truncation keeping the oldest lines and characters instead
truncatedKeepsHead(text) ==
  LET lines == Split(text)
      truncatedLines == SliceFirst(lines, MAX_LOG_SIZE \div LINE_ESTIMATE)
  IN SliceFirst(Join(truncatedLines), MAX_LOG_SIZE)

\* lines 91-95: the last MAX_LOG_SIZE / 100 lines, then the last MAX_LOG_SIZE characters
truncated(text) ==
  LET lines == Split(text)
      truncatedLines == SliceLast(lines, MAX_LOG_SIZE \div LINE_ESTIMATE)
  IN SliceLast(Join(truncatedLines), MAX_LOG_SIZE)

preprocessLogs(logs) ==
  LET c == cleaned(logs)
  IN IF Len(c) > MAX_LOG_SIZE THEN truncated(c) ELSE c

(***************************************************************************)
(* Keyword matching of the fallback analyzers.                             *)
(***************************************************************************)
UpperCase == <<"A", "B", "C", "D", "E", "F", "G", "H", "I", "J", "K", "L", "M",
               "N", "O", "P", "Q", "R", "S", "T", "U", "V", "W", "X", "Y", "Z">>

LowerCase == <<"a", "b", "c", "d", "e", "f", "g", "h", "i", "j", "k", "l", "m",
               "n", "o", "p", "q", "r", "s", "t", "u", "v", "w", "x", "y", "z">>

\* String.prototype.toLowerCase
toLowerCase(s) ==
  [i \in 1..Len(s) |->
     IF \E k \in 1..26 : UpperCase[k] = s[i]
     THEN LowerCase[CHOOSE k \in 1..26 : UpperCase[k] = s[i]]
     ELSE s[i]]

\* String.prototype.includes
includes(s, kw) ==
  \E i \in 0..(Len(s) - Len(kw)) : SubSeq(s, i + 1, i + Len(kw)) = kw

\* keywords.some(keyword => line.toLowerCase().includes(keyword))
someKeyword(line, keywords) ==
  LET lower == toLowerCase(line)
  IN \E kw \in keywords : includes(lower, kw)

\* front end, lines 179-181
feErrorKeywords ==
  {<<"e", "r", "r", "o", "r">>,
   <<"f", "a", "i", "l">>,
   <<"e", "x", "c", "e", "p", "t", "i", "o", "n">>,
   <<"c", "r", "a", "s", "h">>,
   <<"a", "b", "o", "r", "t">>}

feWarningKeywords ==
  {<<"w", "a", "r", "n">>,
   <<"w", "a", "r", "n", "i", "n", "g">>,
   <<"c", "a", "u", "t", "i", "o", "n">>}

feSecurityKeywords ==
  {<<"l", "o", "g", "i", "n">>,
   <<"a", "u", "t", "h">>,
   <<"u", "n", "a", "u", "t", "h", "o", "r", "i", "z", "e", "d">>,
   <<"f", "o", "r", "b", "i", "d", "d", "e", "n">>,
   <<"a", "t", "t", "a", "c", "k">>,
   <<"b", "r", "e", "a", "c", "h">>,
   <<"h", "a", "c", "k">>,
   <<"i", "n", "t", "r", "u", "s", "i", "o", "n">>}

\* back end, lines 164-166, 170-171 and 174
beErrorKeywords ==
  {<<"e", "r", "r", "o", "r">>,
   <<"f", "a", "i", "l">>,
   <<"e", "x", "c", "e", "p", "t", "i", "o", "n">>}

beWarningKeywords ==
  {<<"w", "a", "r", "n", "i", "n", "g">>,
   <<"w", "a", "r", "n">>}

beSecurityKeywords ==
  {<<"l", "o", "g", "i", "n">>,
   <<"a", "u", "t", "h">>,
   <<"u", "n", "a", "u", "t", "h", "o", "r", "i", "z", "e", "d">>,
   <<"f", "o", "r", "b", "i", "d", "d", "e", "n">>,
   <<"a", "t", "t", "a", "c", "k">>,
   <<"b", "r", "e", "a", "c", "h">>}

(***************************************************************************)
(* JSON values.  An array-typed field holds [arr |-> <<...>>]; a reply may *)
(* put a string there instead, [str |-> "..."].  A free text is a sequence *)
(* of pieces (strings), empty for "".  A key a reply omits is not in the   *)
(* DOMAIN of its record.                                                   *)
(***************************************************************************)
Has(o, k) == k \in DOMAIN o

IsArray(v) == Has(v, "arr")

\* JavaScript truthiness of o[k] for a text field
TruthyText(o, k) == Has(o, k) /\ o[k] # <<>>

\* JavaScript truthiness of o[k] for an enumeration field held as a string
TruthyStr(o, k) == Has(o, k) /\ o[k] # ""

\* JavaScript truthiness of o[k] for a number
TruthyNum(o, k) == Has(o, k) /\ o[k] # 0

\* JavaScript truthiness of o[k] for an array-typed field: [] is truthy, "" is not
TruthyArr(o, k) == Has(o, k) /\ (IsArray(o[k]) \/ o[k].str # <<>>)

\* x?.length of an array-typed field that is truthy
LengthOf(v) == IF IsArray(v) THEN Len(v.arr) ELSE Len(v.str)

Arr(xs) == [arr |-> xs]

\* new Date().toISOString()
Now == <<"<now>">>

(***************************************************************************)
(* Risk-level classifier (back end).                                       *)
(***************************************************************************)
\* the classifier with "errors > 5" taken as "errors >= 5"
calculateOverallRiskLevelOffByOne(threats, issues) ==
  LET IsCritical(t) == t.severity = "Critical"
      IsHigh(t) == t.severity = "High"
      IsMedium(t) == t.severity = "Medium"
      IsError(i) == i.type = "Error"
      highThreats == Len(SelectSeq(threats, IsHigh))
      mediumThreats == Len(SelectSeq(threats, IsMedium))
      errors == Len(SelectSeq(issues, IsError))
  IN IF Len(SelectSeq(threats, IsCritical)) > 0 THEN "Critical"
     ELSE IF highThreats > 0 \/ errors >= 5 \/ mediumThreats > 3 THEN "High"
     ELSE IF mediumThreats > 0 \/ errors > 0 \/ Len(issues) > 3 THEN "Medium"
     ELSE "Low"

calculateOverallRiskLevel(threats, issues) ==
  LET IsCritical(t) == t.severity = "Critical"
      IsHigh(t) == t.severity = "High"
      IsMedium(t) == t.severity = "Medium"
      IsError(i) == i.type = "Error"
      highThreats == Len(SelectSeq(threats, IsHigh))
      mediumThreats == Len(SelectSeq(threats, IsMedium))
      errors == Len(SelectSeq(issues, IsError))
  IN IF Len(SelectSeq(threats, IsCritical)) > 0 THEN "Critical"
     ELSE IF highThreats > 0 \/ errors > 5 \/ mediumThreats > 3 THEN "High"
     ELSE IF mediumThreats > 0 \/ errors > 0 \/ Len(issues) > 3 THEN "Medium"
     ELSE "Low"

(***************************************************************************)
(* Response parser and validator (back end).                               *)
(***************************************************************************)
validSeverities == {"Critical", "High", "Medium", "Low", "Informational"}

validTypes == {"Error", "Warning", "Performance", "Info"}

validateSeverity(o) ==
  IF Has(o, "severity") /\ o.severity \in validSeverities THEN o.severity ELSE "Medium"

validateIssueType(o) ==
  IF Has(o, "type") /\ o.type \in validTypes THEN o.type ELSE "Info"

Min(a, b) == IF a < b THEN a ELSE b

Max(a, b) == IF a > b THEN a ELSE b

(***************************************************************************)
(* Numbers.  A JavaScript number is [num |-> n] for the integer n and      *)
(* [num |-> n, half |-> TRUE] for n + 0.5; NaN is [nan |-> TRUE].  A value *)
(* of a reply that is no number is [str |-> characters] or null.           *)
(***************************************************************************)
Num(n) == [num |-> n]

Half(n) == [num |-> n, half |-> TRUE]

NaN == [nan |-> TRUE]

IsNumber(v) == Has(v, "num")

\* twice the number, for comparing
Twice(x) == 2 * x.num + (IF Has(x, "half") THEN 1 ELSE 0)

MathMin(a, b) == IF Twice(a) <= Twice(b) THEN a ELSE b

MathMax(a, b) == IF Twice(a) >= Twice(b) THEN a ELSE b

Digits == <<"0", "1", "2", "3", "4", "5", "6", "7", "8", "9">>

IsDigit(c) == \E d \in 1..10 : Digits[d] = c

DigitValue(c) == (CHOOSE d \in 1..10 : Digits[d] = c) - 1

\* the value of the digits s starts with, after the digits read so far
RECURSIVE LeadingDigits(_, _)
LeadingDigits(s, acc) ==
  IF s = <<>> \/ ~IsDigit(Head(s)) THEN acc
  ELSE LeadingDigits(Tail(s), 10 * acc + DigitValue(Head(s)))

\* parseInt of a string: leading whitespace, a sign, then the digits up to
\* the first character that is none; NaN when no digit is there
parseIntString(s) ==
  LET t == TrimLeft(s)
      signed == t # <<>> /\ Head(t) \in {"-", "+"}
      body == IF signed THEN Tail(t) ELSE t
  IN IF body = <<>> \/ ~IsDigit(Head(body)) THEN NaN
     ELSE IF signed /\ Head(t) = "-" THEN Num(0 - LeadingDigits(body, 0))
     ELSE Num(LeadingDigits(body, 0))

\* String(v) of a value that is no number
ToStringValue(v) ==
  IF Has(v, "str") THEN v.str
  ELSE IF Has(v, "null") THEN <<"n", "u", "l", "l">>
  ELSE <<"u", "n", "d", "e", "f", "i", "n", "e", "d">>

\* parseInt(score): the argument is converted to a string first
parseInt(v) == parseIntString(ToStringValue(v))

\* x || 0 of a number: NaN and 0 are falsy
OrZero(x) == IF Has(x, "nan") \/ x = Num(0) THEN Num(0) ELSE x

\* lines 241-244; a missing score is undefined
validateRiskScore(o) ==
  LET score == IF Has(o, "riskScore") THEN o.riskScore ELSE [undefined |-> TRUE]
      numScore == IF IsNumber(score) THEN score ELSE OrZero(parseInt(score))
  IN MathMax(Num(0), MathMin(Num(100), numScore))

Ok(v) == [ok |-> v]

Throw(e) == [throw |-> e]

IsOk(r) == Has(r, "ok")

\* The text of a reply: kind "prose" has no brace in it, "badjson" has braces
\* but is no JSON, "scalar" is JSON that is no object (null, a number, a string),
\* "object" is the JSON object obj, wrapped in prose when wrapped is TRUE.
\* responseText.match(/\{[\s\S]*\}/) followed by JSON.parse(jsonMatch[0])
beExtract(text) ==
  CASE text.kind = "object" -> Ok(text.obj)
    [] text.kind = "badjson" -> Throw("SyntaxError")
    [] OTHER -> Throw("No JSON found in response")

\* lines 105-112
beDefaults(parsed) ==
  [summary |-> IF TruthyText(parsed, "summary") THEN parsed.summary
               ELSE <<"Analysis completed">>,
   securityThreats |-> IF TruthyArr(parsed, "securityThreats")
                       THEN parsed.securityThreats ELSE Arr(<<>>),
   operationalIssues |-> IF TruthyArr(parsed, "operationalIssues")
                         THEN parsed.operationalIssues ELSE Arr(<<>>),
   totalThreats |-> IF TruthyNum(parsed, "totalThreats") THEN parsed.totalThreats
                    ELSE IF Has(parsed, "securityThreats")
                    THEN LengthOf(parsed.securityThreats) ELSE 0,
   totalIssues |-> IF TruthyNum(parsed, "totalIssues") THEN parsed.totalIssues
                   ELSE IF Has(parsed, "operationalIssues")
                   THEN LengthOf(parsed.operationalIssues) ELSE 0,
   overallRiskLevel |-> IF TruthyStr(parsed, "overallRiskLevel")
                        THEN parsed.overallRiskLevel ELSE "Low"]

parseAnalysisResponse(text) ==
  LET parsed == beExtract(text)
  IN IF IsOk(parsed) THEN Ok(beDefaults(parsed.ok)) ELSE parsed

IsNull(o) == Has(o, "null")

TextOr(o, k, default) == IF TruthyText(o, k) THEN o[k] ELSE default

\* lines 129-136
validateThreat(threat) ==
  [severity |-> validateSeverity(threat),
   description |-> TextOr(threat, "description", <<"Security threat detected">>),
   recommendation |-> TextOr(threat, "recommendation", <<"Further investigation required">>),
   timestamp |-> TextOr(threat, "timestamp", Now),
   category |-> TextOr(threat, "category", <<"General">>),
   riskScore |-> validateRiskScore(threat)]

\* lines 139-146
validateIssue(issue) ==
  [type |-> validateIssueType(issue),
   description |-> TextOr(issue, "description", <<"Operational issue detected">>),
   recommendation |-> TextOr(issue, "recommendation", <<"Review and address issue">>),
   timestamp |-> TextOr(issue, "timestamp", Now),
   category |-> TextOr(issue, "category", <<"General">>),
   impact |-> TextOr(issue, "impact", <<"Unknown impact">>)]

\* .map on a value that is no array, or a property read on a null element, throws
MapThrows(v) == ~IsArray(v) \/ \E i \in 1..Len(v.arr) : IsNull(v.arr[i])

\* lines 148-153
recomputed(analysis, threats, issues) ==
  [analysis EXCEPT !.securityThreats = Arr(threats),
                   !.operationalIssues = Arr(issues),
                   !.totalThreats = Len(threats),
                   !.totalIssues = Len(issues),
                   !.overallRiskLevel = calculateOverallRiskLevel(threats, issues)]

validateAndEnhanceAnalysis(analysis) ==
  IF MapThrows(analysis.securityThreats) \/ MapThrows(analysis.operationalIssues)
  THEN Throw("TypeError")
  ELSE LET ts == analysis.securityThreats.arr
           is == analysis.operationalIssues.arr
           threats == [i \in 1..Len(ts) |-> validateThreat(ts[i])]
           issues == [i \in 1..Len(is) |-> validateIssue(is[i])]
       IN Ok(recomputed(analysis, threats, issues))

(***************************************************************************)
(* Fallback analyzers.                                                     *)
(***************************************************************************)
Excerpt(line) == SliceFirst(line, EXCERPT_LEN)

\* front end, lines 195-200
feThreat(line) ==
  [severity |-> "Medium",
   description |-> <<"Potential security event: ">> \o Excerpt(line) \o <<"...">>,
   recommendation |-> <<"Review this log entry for security implications">>,
   timestamp |-> <<"N/A">>]

\* front end, lines 203-214
feIssue(type, prefix, recommendation, line) ==
  [type |-> type,
   description |-> <<prefix>> \o Excerpt(line) \o <<"...">>,
   recommendation |-> <<recommendation>>,
   timestamp |-> <<"N/A">>]

\* the summary counting the entries generated, not the lines that matched
feSummaryCapped(originalError, errors, warnings, security, lines) ==
  <<"Fallback analysis completed due to AI service issues">>
  \o (IF originalError # "null" THEN <<": ", originalError>> ELSE <<>>)
  \o <<". Found ", ToString(Min(errors, 3)), " errors, ", ToString(Min(warnings, 2)),
       " warnings, and ", ToString(Min(security, 3)),
       " potential security events in ", ToString(lines), " log lines.">>

\* front end, line 218
feSummary(originalError, errors, warnings, security, lines) ==
  <<"Fallback analysis completed due to AI service issues">>
  \o (IF originalError # "null" THEN <<": ", originalError>> ELSE <<>>)
  \o <<". Found ", ToString(errors), " errors, ", ToString(warnings),
       " warnings, and ", ToString(security),
       " potential security events in ", ToString(lines), " log lines.">>

\* the fallback listing the Warning entries before the Error entries
feCreateFallbackAnalysisWarningsFirst(logs, originalError) ==
  LET lines == Split(logs)
      IsErr(l) == someKeyword(l, feErrorKeywords)
      IsWarn(l) == someKeyword(l, feWarningKeywords)
      IsSec(l) == someKeyword(l, feSecurityKeywords)
      errorLines == SelectSeq(lines, IsErr)
      warningLines == SelectSeq(lines, IsWarn)
      securityLines == SelectSeq(lines, IsSec)
      sec == SliceFirst(securityLines, 3)
      err == SliceFirst(errorLines, 3)
      wrn == SliceFirst(warningLines, 2)
  IN [summary |-> feSummary(originalError, Len(errorLines), Len(warningLines),
                            Len(securityLines), Len(lines)),
      securityThreats |-> Arr([i \in 1..Len(sec) |-> feThreat(sec[i])]),
      operationalIssues |->
        Arr([i \in 1..Len(wrn) |->
               feIssue("Warning", "Warning found: ", "Monitor this warning", wrn[i])]
            \o [i \in 1..Len(err) |->
               feIssue("Error", "Error detected: ",
                       "Investigate and resolve this error", err[i])])]

feCreateFallbackAnalysis(logs, originalError) ==
  LET lines == Split(logs)
      IsErr(l) == someKeyword(l, feErrorKeywords)
      IsWarn(l) == someKeyword(l, feWarningKeywords)
      IsSec(l) == someKeyword(l, feSecurityKeywords)
      errorLines == SelectSeq(lines, IsErr)
      warningLines == SelectSeq(lines, IsWarn)
      securityLines == SelectSeq(lines, IsSec)
      sec == SliceFirst(securityLines, 3)
      err == SliceFirst(errorLines, 3)
      wrn == SliceFirst(warningLines, 2)
  IN [summary |-> feSummary(originalError, Len(errorLines), Len(warningLines),
                            Len(securityLines), Len(lines)),
      securityThreats |-> Arr([i \in 1..Len(sec) |-> feThreat(sec[i])]),
      operationalIssues |->
        Arr([i \in 1..Len(err) |->
               feIssue("Error", "Error detected: ",
                       "Investigate and resolve this error", err[i])]
            \o [i \in 1..Len(wrn) |->
               feIssue("Warning", "Warning found: ", "Monitor this warning", wrn[i])])]

\* back end, lines 179-186
beThreat(line) ==
  [severity |-> "Medium",
   description |-> <<"Potential security event detected: ">> \o Excerpt(line) \o <<"...">>,
   recommendation |-> <<"Review this log entry for potential security implications">>,
   timestamp |-> Now,
   category |-> <<"Security Event">>,
   riskScore |-> Num(50)]

\* back end, lines 189-204
beIssue(type, prefix, recommendation, category, impact, line) ==
  [type |-> type,
   description |-> <<prefix>> \o Excerpt(line) \o <<"...">>,
   recommendation |-> <<recommendation>>,
   timestamp |-> Now,
   category |-> <<category>>,
   impact |-> <<impact>>]

\* back end, line 208
beSummary(errors, warnings, security, lines) ==
  <<"Fallback analysis completed. Found ", ToString(errors), " errors, ",
    ToString(warnings), " warnings, and ", ToString(security),
    " potential security events in ", ToString(lines), " log lines.">>

beCreateFallbackAnalysis(logContent) ==
  LET lines == Split(logContent)
      IsErr(l) == someKeyword(l, beErrorKeywords)
      IsWarn(l) == someKeyword(l, beWarningKeywords)
      IsSec(l) == someKeyword(l, beSecurityKeywords)
      errorLines == SelectSeq(lines, IsErr)
      warningLines == SelectSeq(lines, IsWarn)
      securityLines == SelectSeq(lines, IsSec)
      sec == SliceFirst(securityLines, 5)
      err == SliceFirst(errorLines, 3)
      wrn == SliceFirst(warningLines, 2)
      securityThreats == [i \in 1..Len(sec) |-> beThreat(sec[i])]
      operationalIssues ==
        [i \in 1..Len(err) |->
           beIssue("Error", "Error detected: ", "Investigate and resolve this error",
                   "System Error", "May affect system functionality", err[i])]
        \o [i \in 1..Len(wrn) |->
           beIssue("Warning", "Warning detected: ",
                   "Monitor this warning for potential issues",
                   "System Warning", "Potential performance impact", wrn[i])]
  IN [summary |-> beSummary(Len(errorLines), Len(warningLines),
                            Len(securityLines), Len(lines)),
      securityThreats |-> Arr(securityThreats),
      operationalIssues |-> Arr(operationalIssues),
      totalThreats |-> Len(securityThreats),
      totalIssues |-> Len(operationalIssues),
      overallRiskLevel |-> calculateOverallRiskLevel(securityThreats, operationalIssues)]

(***************************************************************************)
(* The pipeline: state of one analyze invocation.                          *)
(***************************************************************************)
VARIABLES
  impl,          \* "fe" (analyzeLogs) or "be" (GeminiService.analyzeLog)
  input,         \* the text analyze was called with
  pc,            \* "start", "awaiting", "sleeping", "done"; "pure" outside the pipeline
  processedLogs, \* front end: the Preprocessor's output
  attempt,       \* the loop variable: the attempt being made, 0 before the first
  calls,         \* number of AI calls issued so far
  lastError,     \* message of the last error caught, "null" when none
  failures,      \* the messages of the errors caught so far, in order
  pending,       \* attempts whose request the transport has not settled yet
  timers,        \* attempts whose withTimeout timer has not fired yet
  delays,        \* the backoff delays slept so far, in order
  reply,         \* the settlement the returned result was parsed from
  outcome,       \* [none], [rejected |-> message] or [returned |-> result]
  fallbackRuns,  \* number of runs of the fallback analyzer
  args,          \* arguments of a function applied on its own
  value,         \* its result
  userRequests,  \* the rate limiter's map: user id -> [count, resetTime]
  now,           \* Date.now()
  served,        \* the requests the rate limiter has seen, with what it did
  running,       \* which of two concurrent invocations the event loop is running
  parked,        \* the locals of the other invocation, waiting at its await
  isAnalyzing,   \* App: the flag behind the spinner
  analysisResult, \* App: the analysis shown, Null when none
  error,         \* App: the error shown, "null" when none
  history,       \* App: the saved entries, newest first
  activeHistoryId, \* App: the entry shown, Null when none
  handlers       \* App: where each handleAnalyze call stands

pipeVars == <<impl, input, pc, processedLogs, attempt, calls, lastError, failures, pending,
              timers, delays, reply, outcome, fallbackRuns>>

rateVars == <<userRequests, now, served>>

concVars == <<running, parked>>

appVars == <<isAnalyzing, analysisResult, error, history, activeHistoryId, handlers>>

vars == <<impl, input, pc, processedLogs, attempt, calls, lastError, failures, pending,
          timers, delays, reply, outcome, fallbackRuns, args, value, userRequests, now,
          served, running, parked, isAnalyzing, analysisResult, error, history,
          activeHistoryId, handlers>>

None == [none |-> TRUE]

\* one invocation only
Alone ==
  /\ running = 1
  /\ parked = None

Null == [null |-> TRUE]

\* App as its useState calls create it, no handleAnalyze call made
Calls == 1..MaxCalls

AppIdle ==
  /\ isAnalyzing = FALSE
  /\ analysisResult = Null
  /\ error = "null"
  /\ history = <<>>
  /\ activeHistoryId = Null
  /\ handlers = [c \in Calls |-> "idle"]

\* the rate limiter as rateLimitByUser creates it: new Map(), no request seen
NoTraffic ==
  /\ userRequests = <<>>
  /\ now = 0
  /\ served = <<>>

(***************************************************************************)
(* Inputs of the pipeline.                                                 *)
(***************************************************************************)
LinePool ==
  {<<"E", "R", "R", "O", "R">>,
   <<"l", "o", "g", "i", "n", " ", "f", "a", "i", "l", "e", "d">>,
   <<"W", "a", "r", "n">>,
   <<"o", "k">>}

LineSeqs == UNION {[1..n -> LinePool] : n \in 1..MaxLines}

\* texts that are empty or hold nothing but whitespace and blank lines
BlankInputs ==
  {<<>>,
   <<" ", NL, "\t">>,
   <<" ", " ", NL, " ", NL, NL, "\t", " ", " ", " ", " ">>}

PaddedInputs ==
  {<<" ", "o", "k", " ", NL, NL, "\t", "E", "R", "R", "O", "R", NL>>}

Inputs == {Join(ls) : ls \in LineSeqs} \cup BlankInputs \cup PaddedInputs

(***************************************************************************)
(* Settlements of one AI call.                                             *)
(***************************************************************************)
Text(t) == <<t>>

Threat(sev) ==
  [severity |-> sev, description |-> Text("d"), recommendation |-> Text("r"),
   timestamp |-> Text("t")]

Issue(type) ==
  [type |-> type, description |-> Text("d"), recommendation |-> Text("r"),
   timestamp |-> Text("t")]

NullElement == [null |-> TRUE]

ThreatArrays ==
  {<<>>, <<NullElement>>, <<[description |-> Text("d")]>>,
   <<Threat("Low") @@ [riskScore |-> Num(150)]>>,
   <<Threat("Low") @@ [riskScore |-> Half(50)]>>,
   <<Threat("Low") @@ [riskScore |-> [str |-> <<"1", "2", "a", "b", "c">>]]>>,
   <<Threat("Low"), Threat("Critical")>>,
   <<Threat("Medium"), Threat("Medium"), Threat("Medium"), Threat("Medium")>>}
  \cup {<<Threat(sev)>> : sev \in validSeverities \cup {"bogus"}}

IssueArrays ==
  {<<>>, <<NullElement>>, <<[description |-> Text("d")]>>,
   <<[type |-> "Error", description |-> <<>>, recommendation |-> Text("r"),
      timestamp |-> Text("t")]>>,
   <<Issue("Info"), Issue("Info"), Issue("Warning"), Issue("Info")>>,
   <<Issue("Error"), Issue("Error"), Issue("Error"),
     Issue("Error"), Issue("Error"), Issue("Error")>>}
  \cup {<<Issue(type)>> : type \in validTypes \cup {"bogus"}}

\* what a reply may say about the derived fields
Derived ==
  {<<>>,
   [totalThreats |-> 7, totalIssues |-> 7, overallRiskLevel |-> "Low"],
   [totalThreats |-> 0, totalIssues |-> 0, overallRiskLevel |-> "Critical"]}

BaseObjects ==
  {[summary |-> Text("s"), securityThreats |-> Arr(ts), operationalIssues |-> Arr(<<>>)] :
     ts \in ThreatArrays}
  \cup
  {[summary |-> Text("s"), securityThreats |-> Arr(<<>>), operationalIssues |-> Arr(is)] :
     is \in IssueArrays}
  \cup
  {<<>>,
   [summary |-> Text("s")],
   [summary |-> <<>>, securityThreats |-> Arr(<<Threat("High")>>),
    operationalIssues |-> Arr(<<Issue("Error")>>)],
   [summary |-> Text("s"), securityThreats |-> [str |-> <<"o", "o", "p", "s">>],
    operationalIssues |-> Arr(<<>>)]}

ReplyObjects == {o @@ d : o \in BaseObjects, d \in Derived}

\* the objects a reply may wrap in leading and trailing prose
WrappedObjects ==
  {[summary |-> Text("s"), securityThreats |-> Arr(<<Threat("Critical")>>),
    operationalIssues |-> Arr(<<>>), overallRiskLevel |-> "Low"],
   [summary |-> Text("s")]}

ReplyTexts ==
  {[kind |-> "prose"], [kind |-> "badjson"], [kind |-> "scalar"]}
  \cup {[kind |-> "object", obj |-> o, wrapped |-> FALSE] : o \in ReplyObjects}
  \cup {[kind |-> "object", obj |-> o, wrapped |-> TRUE] : o \in WrappedObjects}

\* a call resolves with a response carrying a text, resolves with a response
\* that has no text, or rejects with an Error or with some other value
Settlements ==
  {[text |-> t] : t \in ReplyTexts}
  \cup {[notext |-> TRUE], [reject |-> "Error"], [reject |-> "value"]}

(***************************************************************************)
(* Front end: analyzeLogs.                                                 *)
(***************************************************************************)
\* JSON.parse(response.text.trim())
feParse(r) ==
  IF Has(r, "notext") THEN Throw("TypeError")
  ELSE CASE r.text.kind = "object" /\ ~r.text.wrapped -> Ok(r.text.obj)
         [] r.text.kind = "scalar" -> Ok([scalar |-> "null"])
         [] OTHER -> Throw("SyntaxError")

\* lines 151-156 and the error caught at line 159, for a call that settles in time
feAttemptResult(r) ==
  IF Has(r, "reject")
  THEN Throw(IF r.reject = "Error" THEN "transport" ELSE "Unknown error occurred")
  ELSE feParse(r)

TimeoutMessage == "Request timed out after 30000ms"

Returned(result) == [returned |-> result]

Rejected(message) == [rejected |-> message]

\* the call of attempt k goes out, raced against a timer (lines 130-151)
feIssue_(k) ==
  /\ attempt' = k
  /\ calls' = calls + 1
  /\ pending' = pending \cup {k}
  /\ timers' = timers \cup {k}
  /\ pc' = "awaiting"

\* lines 110-121, then the first pass of the loop up to its await
feStart ==
  /\ pc = "start"
  /\ impl = "fe"
  /\ IF Trim(input) = <<>>
     THEN /\ outcome' = Rejected("Log content cannot be empty")
          /\ pc' = "done"
          /\ UNCHANGED <<processedLogs, attempt, calls, pending, timers>>
     ELSE IF Len(preprocessLogs(input)) = 0
     THEN /\ outcome' = Rejected("No valid log content found after preprocessing")
          /\ pc' = "done"
          /\ UNCHANGED <<processedLogs, attempt, calls, pending, timers>>
     ELSE /\ processedLogs' = preprocessLogs(input)
          /\ feIssue_(1)
          /\ UNCHANGED outcome
  /\ UNCHANGED <<impl, input, lastError, failures, delays, reply, fallbackRuns, args, value, rateVars, concVars, appVars>>

\* the catch block leaving the loop one attempt early
feCatchBreaksEarly(message) ==
  /\ lastError' = message
  /\ failures' = Append(failures, message)
  /\ IF attempt = MAX_RETRIES - 1
     THEN /\ outcome' = Returned(feCreateFallbackAnalysis(processedLogs, message))
          /\ fallbackRuns' = fallbackRuns + 1
          /\ pc' = "done"
          /\ UNCHANGED delays
     ELSE /\ delays' = Append(delays, RETRY_DELAY_BASE * attempt)
          /\ pc' = "sleeping"
          /\ UNCHANGED <<outcome, fallbackRuns>>

\* the catch block sleeping after the last attempt as after the others
feCatchSleepsAfterLast(message) ==
  /\ lastError' = message
  /\ failures' = Append(failures, message)
  /\ delays' = Append(delays, RETRY_DELAY_BASE * attempt)
  /\ pc' = "sleeping"
  /\ UNCHANGED <<outcome, fallbackRuns>>

\* lines 158-173: the catch block, and the fallback once the loop is left
feCatch(message) ==
  /\ lastError' = message
  /\ failures' = Append(failures, message)
  /\ IF attempt = MAX_RETRIES
     THEN /\ outcome' = Returned(feCreateFallbackAnalysis(processedLogs, message))
          /\ fallbackRuns' = fallbackRuns + 1
          /\ pc' = "done"
          /\ UNCHANGED delays
     ELSE /\ delays' = Append(delays, RETRY_DELAY_BASE * attempt)
          /\ pc' = "sleeping"
          /\ UNCHANGED <<outcome, fallbackRuns>>

\* the call of the current attempt settles before its timer fires
feSettle ==
  /\ pc = "awaiting"
  /\ impl = "fe"
  /\ attempt \in pending
  /\ \E r \in Settlements :
       /\ pending' = pending \ {attempt}
       /\ IF IsOk(feAttemptResult(r))
          THEN /\ outcome' = Returned(feAttemptResult(r).ok)
               /\ reply' = r
               /\ pc' = "done"
               /\ UNCHANGED <<lastError, failures, delays, fallbackRuns>>
          ELSE /\ feCatch(feAttemptResult(r).throw)
               /\ UNCHANGED reply
  /\ UNCHANGED <<impl, input, processedLogs, attempt, calls, timers, args, value, rateVars, concVars, appVars>>

\* the timer fires and the next attempt goes out at once, with no sleep
feTimeoutRetriesAtOnce ==
  /\ pc = "awaiting"
  /\ impl = "fe"
  /\ attempt \in timers
  /\ lastError' = TimeoutMessage
  /\ failures' = Append(failures, TimeoutMessage)
  /\ IF attempt = MAX_RETRIES
     THEN /\ outcome' = Returned(feCreateFallbackAnalysis(processedLogs, TimeoutMessage))
          /\ fallbackRuns' = fallbackRuns + 1
          /\ pc' = "done"
          /\ timers' = timers \ {attempt}
          /\ UNCHANGED <<attempt, calls, pending>>
     ELSE /\ attempt' = attempt + 1
          /\ calls' = calls + 1
          /\ pending' = pending \cup {attempt + 1}
          /\ timers' = (timers \ {attempt}) \cup {attempt + 1}
          /\ pc' = "awaiting"
          /\ UNCHANGED <<outcome, fallbackRuns>>
  /\ UNCHANGED <<impl, input, processedLogs, delays, reply, args, value, rateVars, concVars, appVars>>

\* the timer of the current attempt fires first: withTimeout rejects, the
\* request stays with the transport
feTimeout ==
  /\ pc = "awaiting"
  /\ impl = "fe"
  /\ attempt \in timers
  /\ timers' = timers \ {attempt}
  /\ feCatch(TimeoutMessage)
  /\ UNCHANGED <<impl, input, processedLogs, attempt, calls, pending, reply, args, value, rateVars, concVars, appVars>>

\* the sleep over, the loop left for the fallback without another attempt
feWakeGivesUp ==
  /\ pc = "sleeping"
  /\ outcome' = Returned(feCreateFallbackAnalysis(processedLogs, lastError))
  /\ fallbackRuns' = fallbackRuns + 1
  /\ pc' = "done"
  /\ UNCHANGED <<impl, input, processedLogs, attempt, calls, lastError, failures, pending,
                 timers, delays, reply, args, value, rateVars, concVars, appVars>>

\* line 167 is over: attempt++, the loop condition, the next pass or the fallback
feWake ==
  /\ pc = "sleeping"
  /\ IF attempt + 1 <= MAX_RETRIES
     THEN /\ feIssue_(attempt + 1)
          /\ UNCHANGED <<outcome, fallbackRuns>>
     ELSE /\ outcome' = Returned(feCreateFallbackAnalysis(processedLogs, lastError))
          /\ fallbackRuns' = fallbackRuns + 1
          /\ pc' = "done"
          /\ UNCHANGED <<attempt, calls, pending, timers>>
  /\ UNCHANGED <<impl, input, processedLogs, lastError, failures, delays, reply, args, value, rateVars, concVars, appVars>>

\* a race that hands on whatever settles, however late
LateSettleDelivers ==
  /\ \E k \in pending, r \in Settlements :
       /\ ~(pc = "awaiting" /\ k = attempt)
       /\ pending' = pending \ {k}
       /\ IF pc # "done" /\ IsOk(feAttemptResult(r))
          THEN /\ outcome' = Returned(feAttemptResult(r).ok)
               /\ reply' = r
               /\ pc' = "done"
          ELSE UNCHANGED <<outcome, reply, pc>>
  /\ UNCHANGED <<impl, input, processedLogs, attempt, calls, lastError, failures, timers,
                 delays, fallbackRuns, args, value, rateVars, concVars, appVars>>

\* a request whose race is over settles: nothing awaits it
LateSettle ==
  /\ \E k \in pending :
       /\ ~(pc = "awaiting" /\ k = attempt)
       /\ pending' = pending \ {k}
  /\ UNCHANGED <<impl, input, pc, processedLogs, attempt, calls, lastError, failures, timers,
                 delays, reply, outcome, fallbackRuns, args, value, rateVars, concVars, appVars>>

\* the timer of a race that is over fires: its rejection is ignored
LateTimer ==
  /\ \E k \in timers :
       /\ ~(pc = "awaiting" /\ k = attempt)
       /\ timers' = timers \ {k}
  /\ UNCHANGED <<impl, input, pc, processedLogs, attempt, calls, lastError, failures, pending,
                 delays, reply, outcome, fallbackRuns, args, value, rateVars, concVars, appVars>>

(***************************************************************************)
(* Back end: GeminiService.analyzeLog.                                     *)
(***************************************************************************)
\* lines 24-25: the prompt is built and the one call goes out, with no timer
beStart ==
  /\ pc = "start"
  /\ impl = "be"
  /\ attempt' = 1
  /\ calls' = calls + 1
  /\ pending' = pending \cup {1}
  /\ pc' = "awaiting"
  /\ UNCHANGED <<impl, input, processedLogs, lastError, failures, timers, delays, reply,
                 outcome, fallbackRuns, args, value, rateVars, concVars, appVars>>

\* lines 26-33 for a call that settles
beAttemptResult(r) ==
  IF Has(r, "reject") THEN Throw("transport")
  ELSE IF Has(r, "notext") THEN Throw("No JSON found in response")
  ELSE LET analysis == parseAnalysisResponse(r.text)
       IN IF IsOk(analysis) THEN validateAndEnhanceAnalysis(analysis.ok) ELSE analysis

\* lines 26-40: the call settles; any error is caught and the fallback returned
beSettle ==
  /\ pc = "awaiting"
  /\ impl = "be"
  /\ attempt \in pending
  /\ \E r \in Settlements :
       /\ pending' = pending \ {attempt}
       /\ IF IsOk(beAttemptResult(r))
          THEN /\ outcome' = Returned(beAttemptResult(r).ok)
               /\ reply' = r
               /\ UNCHANGED <<lastError, failures, fallbackRuns>>
          ELSE /\ lastError' = beAttemptResult(r).throw
               /\ failures' = Append(failures, beAttemptResult(r).throw)
               /\ UNCHANGED reply
               /\ outcome' = Returned(beCreateFallbackAnalysis(input))
               /\ fallbackRuns' = fallbackRuns + 1
  /\ pc' = "done"
  /\ UNCHANGED <<impl, input, processedLogs, attempt, calls, timers, delays, args, value, rateVars, concVars, appVars>>

(***************************************************************************)
(* Specification of the pipeline.                                          *)
(***************************************************************************)
Init ==
  /\ impl \in {"fe", "be"}
  /\ input \in Inputs
  /\ pc = "start"
  /\ processedLogs = <<>>
  /\ attempt = 0
  /\ calls = 0
  /\ lastError = "null"
  /\ failures = <<>>
  /\ pending = {}
  /\ timers = {}
  /\ delays = <<>>
  /\ reply = None
  /\ outcome = None
  /\ fallbackRuns = 0
  /\ args = None
  /\ value = None
  /\ NoTraffic
  /\ Alone
  /\ AppIdle

Next ==
  \/ feStart
  \/ feSettle
  \/ feTimeout
  \/ feWake
  \/ LateSettle
  \/ LateTimer
  \/ beStart
  \/ beSettle

Spec == Init /\ [][Next]_vars

(***************************************************************************)
(* Vocabulary of the properties.                                           *)
(***************************************************************************)
Done == pc = "done"

IsRejected == Has(outcome, "rejected")

IsReturned == Has(outcome, "returned")

result == outcome.returned

\* the text is empty, or empty once its lines are trimmed and the blank ones dropped
EmptyAfterNormalization(text) == cleaned(text) = <<>>

\* the two fallback analyzers open their summary with these words
IsFallbackSummary(summary) ==
  /\ Len(summary) > 0
  /\ summary[1] \in {"Fallback analysis completed due to AI service issues",
                     "Fallback analysis completed. Found "}

IsFallbackResult(r) == Has(r, "summary") /\ IsFallbackSummary(r.summary)

\* the fields the LogAnalysis types of both implementations share
IsLogAnalysis(r) ==
  /\ Has(r, "summary")
  /\ Has(r, "securityThreats") /\ IsArray(r.securityThreats)
  /\ Has(r, "operationalIssues") /\ IsArray(r.operationalIssues)

\* the number of attempts the implementation allows
AttemptLimit == IF impl = "fe" THEN MAX_RETRIES ELSE 1

\* every attempt made so far has failed
NoAttemptSucceeded == reply = None

\* the rule of the Risk-Level Classifier, stated on the entries' fields
SeverityOf(t) == IF Has(t, "severity") THEN t.severity ELSE "absent"

TypeOf(i) == IF Has(i, "type") THEN i.type ELSE "absent"

NumSeverity(threats, sev) == Cardinality({k \in 1..Len(threats) : SeverityOf(threats[k]) = sev})

NumType(issues, type) == Cardinality({k \in 1..Len(issues) : TypeOf(issues[k]) = type})

RiskRule(threats, issues) ==
  CASE NumSeverity(threats, "Critical") >= 1 -> "Critical"
    [] NumSeverity(threats, "Critical") = 0
       /\ (\/ NumSeverity(threats, "High") >= 1
           \/ NumType(issues, "Error") >= 6
           \/ NumSeverity(threats, "Medium") >= 4) -> "High"
    [] NumSeverity(threats, "Critical") = 0
       /\ NumSeverity(threats, "High") = 0
       /\ NumType(issues, "Error") = 0
       /\ NumSeverity(threats, "Medium") = 0
       /\ Len(issues) <= 3 -> "Low"
    [] OTHER -> "Medium"

(***************************************************************************)
(* Properties of the pipeline.                                             *)
(***************************************************************************)
\* C1: analyze ends either with the empty-input rejection or with a returned
\* LogAnalysis result, whatever the AI call did on any attempt; when every
\* attempt failed the returned result is the fallback result.
C1_RejectionOrResult ==
  Done =>
    \/ IsRejected /\ EmptyAfterNormalization(input)
    \/ /\ IsReturned
       /\ IsLogAnalysis(result)
       /\ (NoAttemptSucceeded => IsFallbackResult(result))

\* C2: an input that is empty after normalization is rejected with the
\* empty-input error; no AI call is issued and the fallback analyzer is not run.
C2_EmptyInputIssuesNoCall ==
  EmptyAfterNormalization(input) =>
    /\ calls = 0
    /\ attempt = 0
    /\ fallbackRuns = 0
    /\ (Done => IsRejected)

\* every attempt so far ended by the timer firing
AllTimedOut ==
  /\ failures # <<>>
  /\ \A k \in 1..Len(failures) : failures[k] = TimeoutMessage
  /\ NoAttemptSucceeded

\* C3: when every call of the front end times out, with MAX_RETRIES = 2, a
\* non-empty input gets exactly 2 attempts and then the fallback result, whose
\* summary says it is a fallback analysis.
C3_TwoAttemptsThenFallback ==
  (impl = "fe" /\ AllTimedOut) =>
    /\ calls <= 2
    /\ (pc = "sleeping" => calls < 2)
    /\ Done =>
         /\ calls = 2
         /\ Len(failures) = 2
         /\ IsReturned
         /\ IsFallbackResult(result)
         /\ fallbackRuns = 1

C3_Witness ==
  /\ impl = "fe"
  /\ Done
  /\ ~EmptyAfterNormalization(input)
  /\ failures = <<TimeoutMessage, TimeoutMessage>>
  /\ IsReturned
  /\ IsFallbackResult(result)

ParseErrors == {"SyntaxError", "No JSON found in response"}

\* C4: a reply whose text cannot be parsed into a JSON object makes its
\* attempt fail: no result is parsed from it, the attempt is retried while
\* attempts remain, and at the limit the fallback result is returned.
C4_UnparseableReplyFails ==
  /\ (Has(reply, "text") => reply.text.kind = "object")
  /\ ((pc = "sleeping" /\ lastError \in ParseErrors) => attempt < AttemptLimit)
  /\ ((Done /\ lastError \in ParseErrors /\ NoAttemptSucceeded) =>
        /\ IsReturned
        /\ IsFallbackResult(result)
        /\ calls = AttemptLimit)

\* C5: every result returned for a non-empty input has totalThreats equal to
\* the length of securityThreats and totalIssues equal to the length of
\* operationalIssues (stated of the results that have the two lists).
C5_TotalsMatchLengths ==
  (Done /\ IsReturned /\ ~EmptyAfterNormalization(input) /\ IsLogAnalysis(result)) =>
    /\ Has(result, "totalThreats")
    /\ Has(result, "totalIssues")
    /\ result.totalThreats = Len(result.securityThreats.arr)
    /\ result.totalIssues = Len(result.operationalIssues.arr)

\* C6: every returned result carries the overallRiskLevel the classifier's
\* rule gives for that result's own threats and issues (stated of the results
\* that have the two lists).
C6_RiskLevelRecomputed ==
  (Done /\ IsReturned /\ IsLogAnalysis(result)) =>
    /\ Has(result, "overallRiskLevel")
    /\ result.overallRiskLevel =
         RiskRule(result.securityThreats.arr, result.operationalIssues.arr)

DerivedKeys == {"totalThreats", "totalIssues", "overallRiskLevel"}

\* the reply object with its derived fields replaced by d
WithDerived(o, d) == [k \in DOMAIN o \ DerivedKeys |-> o[k]] @@ d

AttemptResult(r) == IF impl = "fe" THEN feAttemptResult(r) ELSE beAttemptResult(r)

HasCriticalThreat(o) ==
  /\ Has(o, "securityThreats")
  /\ IsArray(o.securityThreats)
  /\ \E k \in 1..Len(o.securityThreats.arr) :
       SeverityOf(o.securityThreats.arr[k]) = "Critical"

\* C7: the totalThreats, totalIssues and overallRiskLevel of the model's reply
\* do not influence the result: the same reply with other values there gives
\* the same result, and a reply with a Critical threat gives Critical.
C7_DerivedFieldsIgnored ==
  (Done /\ Has(reply, "text") /\ reply.text.kind = "object") =>
    /\ \A d \in Derived :
         AttemptResult([text |-> [reply.text EXCEPT
                                    !.obj = WithDerived(reply.text.obj, d)]])
           = Ok(result)
    /\ HasCriticalThreat(reply.text.obj) =>
         Has(result, "overallRiskLevel") /\ result.overallRiskLevel = "Critical"

(***************************************************************************)
(* Properties of the attempts, the timers and the fallback.                *)
(***************************************************************************)
\* the request of an attempt whose timer has fired settles in this step
LateReplyArrives ==
  /\ impl = "fe"
  /\ \E k \in pending : k \notin timers /\ pending' = pending \ {k}

\* C11: a reply that arrives after its attempt's timer has fired is discarded:
\* the step in which it arrives changes neither the outcome nor anything a
\* later attempt or the fallback reads (the attempt counter, the error
\* recorded, the delays, the position in the loop).
C11_LateReplyDiscarded ==
  [][LateReplyArrives =>
       UNCHANGED <<impl, input, pc, processedLogs, attempt, calls, lastError, failures,
                   timers, delays, reply, outcome, fallbackRuns>>]_vars

\* the first attempt timed out, its reply arrived while the second attempt
\* was in its race, and the second attempt gave the result
C11_Witness ==
  /\ impl = "fe"
  /\ Done
  /\ failures = <<TimeoutMessage>>
  /\ attempt = 2
  /\ pending = {}
  /\ timers = {2}
  /\ reply # None
  /\ IsReturned

\* C12: the fallback analyzer runs at most once, and only when every allowed
\* attempt has failed; an attempt that succeeds ends the invocation with its
\* own result, with no attempt after it and no fallback run; a returned result
\* whose summary says fallback comes with as many failures as attempts allowed.
C12_FallbackOnlyAfterExhaustion ==
  /\ fallbackRuns <= 1
  /\ (fallbackRuns = 1 =>
        /\ Done
        /\ NoAttemptSucceeded
        /\ calls = AttemptLimit
        /\ Len(failures) = AttemptLimit)
  /\ (~NoAttemptSucceeded =>
        /\ Done
        /\ outcome = Returned(AttemptResult(reply).ok)
        /\ fallbackRuns = 0
        /\ calls = attempt
        /\ Len(failures) = attempt - 1)
  /\ ((Done /\ IsReturned /\ IsFallbackResult(result)) =>
        /\ fallbackRuns = 1
        /\ Len(failures) = AttemptLimit)

\* the first attempt failed, the second succeeded and gave the result
C12_Witness ==
  /\ impl = "fe"
  /\ Done
  /\ Len(failures) = 1
  /\ calls = 2
  /\ ~NoAttemptSucceeded
  /\ IsReturned
  /\ fallbackRuns = 0

\* the entries the reply the result was parsed from has in one of its lists
ReplyEntries(field) ==
  IF /\ Has(reply, "text")
     /\ reply.text.kind = "object"
     /\ Has(reply.text.obj, field)
     /\ IsArray(reply.text.obj[field])
  THEN reply.text.obj[field].arr
  ELSE <<>>

CoercedSeverity(t) == IF SeverityOf(t) \in validSeverities THEN SeverityOf(t) ELSE "Medium"

CoercedType(i) == IF TypeOf(i) \in validTypes THEN TypeOf(i) ELSE "Info"

\* C15: in every returned result each threat's severity is one of the five
\* severities and each issue's type one of the four types; the entry made from
\* a reply's entry keeps a valid value, and has Medium (severity) or Info
\* (type) where the reply's value is missing or not in the set.
C15_EnumsCoerced ==
  (Done /\ IsReturned /\ IsLogAnalysis(result)) =>
    /\ \A k \in 1..Len(result.securityThreats.arr) :
         SeverityOf(result.securityThreats.arr[k]) \in validSeverities
    /\ \A k \in 1..Len(result.operationalIssues.arr) :
         TypeOf(result.operationalIssues.arr[k]) \in validTypes
    /\ \A k \in 1..Len(ReplyEntries("securityThreats")) :
         /\ k <= Len(result.securityThreats.arr)
         /\ SeverityOf(result.securityThreats.arr[k])
              = CoercedSeverity(ReplyEntries("securityThreats")[k])
    /\ \A k \in 1..Len(ReplyEntries("operationalIssues")) :
         /\ k <= Len(result.operationalIssues.arr)
         /\ TypeOf(result.operationalIssues.arr[k])
              = CoercedType(ReplyEntries("operationalIssues")[k])

Levels == {"Critical", "High", "Medium", "Low"}

\* the one shape of a result
IsFixedShape(r) ==
  /\ Has(r, "summary") /\ r.summary # <<>>
  /\ Has(r, "securityThreats") /\ IsArray(r.securityThreats)
  /\ Has(r, "operationalIssues") /\ IsArray(r.operationalIssues)
  /\ Has(r, "totalThreats")
  /\ Has(r, "totalIssues")
  /\ Has(r, "overallRiskLevel") /\ r.overallRiskLevel \in Levels

\* C16: every returned result, from a reply or from the fallback, has a
\* non-empty summary, the two lists, the two totals and an overallRiskLevel
\* among Critical, High, Medium and Low, whatever fields the reply lacked.
C16_FixedShape == (Done /\ IsReturned) => IsFixedShape(result)

\* C18: the front end sleeps RETRY_DELAY_BASE * k after failed attempt k while
\* attempts remain, so each delay is longer than the one before, and attempt
\* k+1 goes out after k delays; after the failure of the last attempt it
\* sleeps no more and is done.
C18_BackoffDelays ==
  impl = "fe" =>
    /\ \A k \in 1..Len(delays) : delays[k] = RETRY_DELAY_BASE * k
    /\ \A k \in 2..Len(delays) : delays[k] > delays[k - 1]
    /\ Len(delays) = Min(Len(failures), MAX_RETRIES - 1)
    /\ (pc = "sleeping" => Len(delays) = attempt /\ attempt < MAX_RETRIES)
    /\ (pc = "awaiting" => Len(delays) = attempt - 1)
    /\ (Len(failures) = MAX_RETRIES => Done)

\* both attempts failed: one delay after the first, none after the second
C18_Witness ==
  /\ impl = "fe"
  /\ Done
  /\ Len(failures) = MAX_RETRIES
  /\ delays = <<RETRY_DELAY_BASE>>
  /\ fallbackRuns = 1

\* one attempt at a time, each after the failure and the sleep of the last
OneAttemptAtATime ==
  /\ calls = attempt
  /\ calls <= MAX_RETRIES
  /\ (pc = "awaiting" =>
        /\ Len(failures) = attempt - 1
        /\ (impl = "fe" => Len(delays) = attempt - 1))
  /\ (pc = "sleeping" => Len(failures) = attempt /\ Len(delays) = attempt)

\* the attempt counter goes up by one, and only at the start or after a sleep
CounterOnlyIncreases ==
  /\ attempt' >= attempt
  /\ calls' >= calls
  /\ (attempt' # attempt =>
        /\ attempt' = attempt + 1
        /\ pc \in {"start", "sleeping"}
        /\ Len(failures) = attempt)

\* C19: the attempts of one invocation are sequential: attempt k+1 is issued
\* only after attempt k has failed or timed out and the backoff sleep is over,
\* no more than MAX_RETRIES attempts are issued, and the attempt counter only
\* increases.
C19_SequentialAttempts == []OneAttemptAtATime /\ [][CounterOnlyIncreases]_vars

\* the second attempt is in its race, after the first timed out and the sleep
C19_Witness ==
  /\ impl = "fe"
  /\ pc = "awaiting"
  /\ attempt = 2
  /\ calls = 2
  /\ failures = <<TimeoutMessage>>
  /\ delays = <<RETRY_DELAY_BASE>>
  /\ 1 \in pending

\* the entry has its text, and the reply's own where the reply had one
HasTextOfReply(entry, replyEntries, k, field) ==
  /\ TruthyText(entry, field)
  /\ (k <= Len(replyEntries) /\ TruthyText(replyEntries[k], field)) =>
       entry[field] = replyEntries[k][field]

FilledList(list) ==
  \A k \in 1..Len(result[list].arr) :
    /\ HasTextOfReply(result[list].arr[k], ReplyEntries(list), k, "description")
    /\ HasTextOfReply(result[list].arr[k], ReplyEntries(list), k, "recommendation")

\* C22: in every result made from a reply each threat and each issue has a
\* non-empty description and a non-empty recommendation, the reply's own
\* where the reply gave one, a placeholder where it gave none or an empty one.
C22_PlaceholdersFilled ==
  (Done /\ IsReturned /\ ~NoAttemptSucceeded /\ IsLogAnalysis(result)) =>
    /\ Len(result.securityThreats.arr) = Len(ReplyEntries("securityThreats"))
    /\ Len(result.operationalIssues.arr) = Len(ReplyEntries("operationalIssues"))
    /\ FilledList("securityThreats")
    /\ FilledList("operationalIssues")

(***************************************************************************)
(* The pipeline under the scheduling the event loop guarantees: code that  *)
(* can run runs, and a timer that is armed fires.  Nothing makes the AI    *)
(* service answer, so the settlement of a call is not fair.                *)
(***************************************************************************)
\* the non-empty inputs of one line
LiveInputs == {Join(ls) : ls \in [1..1 -> LinePool]}

InitLive == Init /\ input \in LiveInputs

SpecLive ==
  /\ InitLive
  /\ [][Next]_vars
  /\ WF_vars(feStart)
  /\ WF_vars(beStart)
  /\ WF_vars(feTimeout)
  /\ WF_vars(feWake)

\* C10: with timers scheduled fairly, analyze on a non-empty input eventually
\* ends with a result, even when no AI call ever responds.
C10_EventuallyReturns == <>(Done /\ IsReturned)

(***************************************************************************)
(* What holds of one implementation alone.                                 *)
(***************************************************************************)
\* the front end rejects every input that is empty after normalization
FrontEndRejectsEmptyInput == impl = "fe" => C2_EmptyInputIssuesNoCall

\* the back end returns a repaired result or its fallback result
BackEndRejectionOrResult == impl = "be" => C1_RejectionOrResult

BackEndUnparseableReplyFails == impl = "be" => C4_UnparseableReplyFails

BackEndTotalsMatchLengths == impl = "be" => C5_TotalsMatchLengths

BackEndRiskLevelRecomputed == impl = "be" => C6_RiskLevelRecomputed

BackEndDerivedFieldsIgnored == impl = "be" => C7_DerivedFieldsIgnored

\* the back end's validator coerces every severity and type
BackEndEnumsCoerced == impl = "be" => C15_EnumsCoerced

\* the back end's parser and validator fill in every field of the shape
BackEndFixedShape == impl = "be" => C16_FixedShape

\* the back end's validator fills in descriptions and recommendations
BackEndPlaceholdersFilled == impl = "be" => C22_PlaceholdersFilled

\* under SpecLive the front end, whose calls race a timer, always returns
FrontEndEventuallyReturns == <>(impl = "be" \/ (Done /\ IsReturned))


(***************************************************************************)
(* Pure functions applied on their own: args holds the arguments, value    *)
(* the result once the function has been applied.                          *)
(***************************************************************************)
Idle ==
  /\ impl = "none"
  /\ input = <<>>
  /\ pc = "pure"
  /\ processedLogs = <<>>
  /\ attempt = 0
  /\ calls = 0
  /\ lastError = "null"
  /\ failures = <<>>
  /\ pending = {}
  /\ timers = {}
  /\ delays = <<>>
  /\ reply = None
  /\ outcome = None
  /\ fallbackRuns = 0
  /\ NoTraffic
  /\ Alone
  /\ AppIdle

\* the sequences of length n over 1..m that never decrease
NonDecreasing(n, m) ==
  {f \in [1..n -> 1..m] : \A k \in 1..(n - 1) : f[k] <= f[k + 1]}

SeverityByRank == <<"Critical", "High", "Medium", "Low", "Informational">>

TypeByRank == <<"Error", "Warning", "Performance", "Info">>

\* the threat lists up to MaxThreats entries, one list per multiset of severities
ThreatLists ==
  UNION {{[k \in 1..n |-> Threat(SeverityByRank[f[k]])] : f \in NonDecreasing(n, 5)} :
           n \in 0..MaxThreats}

\* the issue lists up to MaxIssues entries, one list per multiset of types
IssueLists ==
  UNION {{[k \in 1..n |-> Issue(TypeByRank[f[k]])] : f \in NonDecreasing(n, 4)} :
           n \in 0..MaxIssues}

InitRisk ==
  /\ Idle
  /\ args \in {[threats |-> ts, issues |-> is] : ts \in ThreatLists, is \in IssueLists}
  /\ value = None

Classify ==
  /\ pc = "pure"
  /\ Has(args, "threats")
  /\ value = None
  /\ value' = [level |-> calculateOverallRiskLevel(args.threats, args.issues)]
  /\ UNCHANGED <<pipeVars, args, rateVars, concVars, appVars>>

NextRisk == Classify

SpecRisk == InitRisk /\ [][NextRisk]_vars

\* C8: the classifier returns Critical if any threat is Critical; else High if
\* any threat is High, or more than 5 issues are Errors, or more than 3 threats
\* are Medium; else Medium if any threat is Medium, or any issue is an Error,
\* or there are more than 3 issues; else Low.
C8_ClassifierRule ==
  Has(value, "level") =>
    /\ value.level = RiskRule(args.threats, args.issues)
    /\ value.level \in {"Critical", "High", "Medium", "Low"}

\* six Errors, and no threat, classified
C8_Witness ==
  /\ Has(value, "level")
  /\ args.threats = <<>>
  /\ NumType(args.issues, "Error") = 6
  /\ value.level = "High"

RawLinePool ==
  {<<>>, <<" ">>, <<"a", "b">>, <<" ", "c", "d", " ">>,
   <<"e", "f", "g", "h">>, <<"x", " ", "y">>}

RawLineSeqs == UNION {[1..n -> RawLinePool] : n \in 1..MaxRawLines}

InitPre ==
  /\ Idle
  /\ args \in {[logs |-> Join(ls)] : ls \in RawLineSeqs}
  /\ value = None

Preprocess ==
  /\ pc = "pure"
  /\ Has(args, "logs")
  /\ value = None
  /\ value' = [out |-> preprocessLogs(args.logs)]
  /\ UNCHANGED <<pipeVars, args, rateVars, concVars, appVars>>

NextPre == Preprocess

SpecPre == InitPre /\ [][NextPre]_vars

IsSuffix(s, t) == Len(s) <= Len(t) /\ SubSeq(t, Len(t) - Len(s) + 1, Len(t)) = s

\* C9: when the normalized text is longer than MAX_LOG_SIZE, the output of the
\* Preprocessor is at most MAX_LOG_SIZE long and is a suffix of the normalized
\* text.
C9_TruncationKeepsTail ==
  (Has(value, "out") /\ Len(cleaned(args.logs)) > MAX_LOG_SIZE) =>
    /\ Len(value.out) <= MAX_LOG_SIZE
    /\ IsSuffix(value.out, cleaned(args.logs))

\* a text was cut, and lost some of its first characters
C9_Witness ==
  /\ Has(value, "out")
  /\ Len(cleaned(args.logs)) > MAX_LOG_SIZE
  /\ Len(value.out) > 0
  /\ value.out # cleaned(args.logs)

\* the last MAX_LOG_SIZE characters of a text longer than that
LastMaxChars(text) == SubSeq(text, Len(text) - MAX_LOG_SIZE + 1, Len(text))

\* C20: the output of the Preprocessor is exactly the last MAX_LOG_SIZE
\* characters of the normalized text when that is longer than MAX_LOG_SIZE,
\* and the normalized text unchanged when it is not.
C20_ExactlyLastMaxChars ==
  Has(value, "out") =>
    IF Len(cleaned(args.logs)) > MAX_LOG_SIZE
    THEN value.out = LastMaxChars(cleaned(args.logs))
    ELSE value.out = cleaned(args.logs)

\* a normalized text within MAX_LOG_SIZE is the output, unchanged
PreprocessorKeepsShortText ==
  (Has(value, "out") /\ Len(cleaned(args.logs)) <= MAX_LOG_SIZE) =>
    value.out = cleaned(args.logs)

\* a text with no empty line and no line that starts or ends with whitespace;
\* the empty text has no line
IsNormalized(text) ==
  LET lines == Split(text)
  IN text # <<>> =>
       \A i \in 1..Len(lines) : NonEmpty(lines[i]) /\ Trim(lines[i]) = lines[i]

\* C28: the output of the Preprocessor, for every input and for truncated
\* ones too, has no empty line and no line with leading or trailing
\* whitespace, and preprocessing the output again returns it unchanged.
C28_IdempotentNormalized ==
  Has(value, "out") =>
    /\ IsNormalized(value.out)
    /\ preprocessLogs(value.out) = value.out

\* the output is normalized, and a fixed point, when nothing was cut
PreprocessorIdempotentOnShortText ==
  (Has(value, "out") /\ Len(cleaned(args.logs)) <= MAX_LOG_SIZE) =>
    /\ IsNormalized(value.out)
    /\ preprocessLogs(value.out) = value.out

(***************************************************************************)
(* The fallback analyzers applied on their own.                            *)
(***************************************************************************)
Repeat(line, n) == [k \in 1..n |-> line]

OkLine == <<"o", "k">>

ErrorLine == <<"E", "R", "R", "O", "R">>

WarningLine == <<"W", "a", "r", "n">>

SecurityLine == <<"l", "o", "g", "i", "n">>

\* a line that matches a security keyword and an error keyword
LoginFailedLine == <<"l", "o", "g", "i", "n", " ", "f", "a", "i", "l", "e", "d">>

\* the lines of a log with o, e, w, s and f lines of the five kinds
LogLines(o, e, w, s, f) ==
  Repeat(OkLine, o) \o Repeat(ErrorLine, e) \o Repeat(WarningLine, w)
  \o Repeat(SecurityLine, s) \o Repeat(LoginFailedLine, f)

\* ten ERROR lines and one "login failed" line
TenErrorsAndLoginFailed == Join(LogLines(0, 10, 0, 0, 1))

\* normalized logs: at least one line, none of them blank
Reverse(xs) == [k \in 1..Len(xs) |-> xs[Len(xs) + 1 - k]]

\* the lines in the order above, and in the opposite order
FallbackLogs ==
  ({Join(LogLines(o, e, w, s, f)) :
      o \in 0..1, e \in 0..MaxErrorLines, w \in 0..MaxWarningLines,
      s \in 0..MaxSecurityLines, f \in 0..1} \ {<<>>})
  \cup
  ({Join(Reverse(LogLines(o, e, w, s, f))) :
      o \in 0..1, e \in 0..MaxErrorLines, w \in 0..MaxWarningLines,
      s \in 0..MaxSecurityLines, f \in 0..1} \ {<<>>})
  \cup {TenErrorsAndLoginFailed}

InitFallback ==
  /\ Idle
  /\ args \in {[analyzer |-> "fe", log |-> l, error |-> e] :
                 l \in FallbackLogs, e \in {TimeoutMessage, "SyntaxError"}}
              \cup {[analyzer |-> "be", log |-> l] : l \in FallbackLogs}
  /\ value = None

Fallback ==
  /\ pc = "pure"
  /\ Has(args, "analyzer")
  /\ value = None
  /\ value' = [fallback |->
                 IF args.analyzer = "fe"
                 THEN feCreateFallbackAnalysis(args.log, args.error)
                 ELSE beCreateFallbackAnalysis(args.log)]
  /\ UNCHANGED <<pipeVars, args, rateVars, concVars, appVars>>

NextFallback == Fallback

SpecFallback == InitFallback /\ [][NextFallback]_vars

\* the number of lines of the log that contain one of the keywords, whatever
\* the case of their letters
Matching(log, keywords) ==
  LET lines == Split(log)
      lower == [k \in 1..Len(lines) |-> toLowerCase(lines[k])]
      Contains(l, kw) == \E i \in 1..Len(l) :
                           i + Len(kw) - 1 <= Len(l) /\ SubSeq(l, i, i + Len(kw) - 1) = kw
  IN Cardinality({k \in 1..Len(lines) : \E kw \in keywords : Contains(lower[k], kw)})

\* the keyword sets of the specification are those of the front end; on the
\* lines of these logs the back end's sets select the same lines
ErrorCount == Matching(args.log, feErrorKeywords)

WarningCount == Matching(args.log, feWarningKeywords)

SecurityCount == Matching(args.log, feSecurityKeywords)

\* C13: the fallback analyzer emits min(e,3) issues of type Error, min(w,2)
\* issues of type Warning and min(s,3) security threats, where e, w and s
\* count the lines matching the error, warning and security keywords; for ten
\* ERROR lines and one "login failed" line, 3 Error issues and 1 threat.
C13_FallbackCaps ==
  Has(value, "fallback") =>
    /\ NumType(value.fallback.operationalIssues.arr, "Error") = Min(ErrorCount, 3)
    /\ NumType(value.fallback.operationalIssues.arr, "Warning") = Min(WarningCount, 2)
    /\ Len(value.fallback.operationalIssues.arr) = Min(ErrorCount, 3) + Min(WarningCount, 2)
    /\ Len(value.fallback.securityThreats.arr) = Min(SecurityCount, 3)
    /\ (args.log = TenErrorsAndLoginFailed =>
          /\ NumType(value.fallback.operationalIssues.arr, "Error") = 3
          /\ Len(value.fallback.securityThreats.arr) = 1)

\* the front end's fallback analyzer keeps to the three caps
FrontEndFallbackCaps == args.analyzer = "fe" => C13_FallbackCaps

\* C14: every fallback result has an overallRiskLevel, the one the
\* classifier's rule gives for its generated entries, and it is Medium or
\* higher when a line of the log matches a security or an error keyword.
C14_FallbackRiskFloor ==
  Has(value, "fallback") =>
    /\ Has(value.fallback, "overallRiskLevel")
    /\ value.fallback.overallRiskLevel =
         RiskRule(value.fallback.securityThreats.arr, value.fallback.operationalIssues.arr)
    /\ ((SecurityCount >= 1 \/ ErrorCount >= 1) =>
          value.fallback.overallRiskLevel \in {"Medium", "High", "Critical"})

\* the back end's fallback result has the classifier's level, never Low when
\* a security or an error line exists
BackEndFallbackRiskFloor == args.analyzer = "be" => C14_FallbackRiskFloor

\* the lines of the log that contain one of the keywords, in log order
MatchingLines(log, keywords) ==
  LET lines == Split(log)
      Contains(l, kw) == \E i \in 1..Len(l) :
                           i + Len(kw) - 1 <= Len(l) /\ SubSeq(l, i, i + Len(kw) - 1) = kw
      Matches(l) == \E kw \in keywords : Contains(toLowerCase(l), kw)
  IN SelectSeq(lines, Matches)

\* the characters of the line an entry's description quotes, between the
\* opening words and the dots
ExcerptOf(entry) == SubSeq(entry.description, 2, Len(entry.description) - 1)

\* the k-th entry quotes the start of the k-th of the lines, has timestamp N/A
GeneratedFrom(entries, lines) ==
  /\ Len(entries) <= Len(lines)
  /\ \A k \in 1..Len(entries) :
       /\ entries[k].timestamp = <<"N/A">>
       /\ Len(ExcerptOf(entries[k])) <= EXCERPT_LEN
       /\ ExcerptOf(entries[k]) = SubSeq(lines[k], 1, Len(ExcerptOf(entries[k])))
       /\ (Len(lines[k]) <= EXCERPT_LEN => ExcerptOf(entries[k]) = lines[k])
       /\ (Len(lines[k]) > EXCERPT_LEN => Len(ExcerptOf(entries[k])) = EXCERPT_LEN)

IssuesOfType(issues, type) ==
  LET OfType(i) == i.type = type
  IN SelectSeq(issues, OfType)

\* C23: every entry the fallback analyzer generates has timestamp "N/A",
\* every threat has severity Medium, and the k-th entry of a kind quotes the
\* first EXCERPT_LEN characters, or fewer, of the k-th line that matched.
C23_FallbackEntries ==
  Has(value, "fallback") =>
    /\ \A k \in 1..Len(value.fallback.securityThreats.arr) :
         value.fallback.securityThreats.arr[k].severity = "Medium"
    /\ GeneratedFrom(value.fallback.securityThreats.arr,
                     MatchingLines(args.log, feSecurityKeywords))
    /\ GeneratedFrom(IssuesOfType(value.fallback.operationalIssues.arr, "Error"),
                     MatchingLines(args.log, feErrorKeywords))
    /\ GeneratedFrom(IssuesOfType(value.fallback.operationalIssues.arr, "Warning"),
                     MatchingLines(args.log, feWarningKeywords))

\* the front end's fallback entries have timestamp N/A and quote their lines
FrontEndFallbackEntries == args.analyzer = "fe" => C23_FallbackEntries

\* the piece of the summary that stands before the words
PieceBefore(summary, words) ==
  IF \E k \in 2..Len(summary) : summary[k] = words
  THEN summary[(CHOOSE k \in 2..Len(summary) : summary[k] = words) - 1]
  ELSE "none"

\* C24: the fallback summary says it is a fallback and gives the numbers of
\* lines that matched the error, warning and security keywords and of all
\* lines, not the numbers of entries generated.
C24_SummaryCounts ==
  Has(value, "fallback") =>
    /\ IsFallbackSummary(value.fallback.summary)
    /\ PieceBefore(value.fallback.summary, " errors, ") = ToString(ErrorCount)
    /\ PieceBefore(value.fallback.summary, " warnings, and ") = ToString(WarningCount)
    /\ PieceBefore(value.fallback.summary, " potential security events in ")
         = ToString(SecurityCount)
    /\ PieceBefore(value.fallback.summary, " log lines.") = ToString(Len(Split(args.log)))
    /\ (ErrorCount > 3 =>
          ErrorCount > NumType(value.fallback.operationalIssues.arr, "Error"))
    /\ (WarningCount > 2 =>
          WarningCount > NumType(value.fallback.operationalIssues.arr, "Warning"))

\* more error and warning lines than entries generated for them
C24_Witness ==
  /\ Has(value, "fallback")
  /\ args.analyzer = "fe"
  /\ ErrorCount = 4
  /\ WarningCount = 3
  /\ NumType(value.fallback.operationalIssues.arr, "Error") = 3
  /\ PieceBefore(value.fallback.summary, " errors, ") = "4"

\* C27: the three scans are independent: a line matching several sets is
\* counted in each and gives an entry of each kind; in operationalIssues the
\* Error entries all come before the Warning entries, each group quoting its
\* lines in log order.
C27_IndependentScans ==
  Has(value, "fallback") =>
    LET issues == value.fallback.operationalIssues.arr
        threats == value.fallback.securityThreats.arr
        errors == MatchingLines(args.log, feErrorKeywords)
        warnings == MatchingLines(args.log, feWarningKeywords)
        security == MatchingLines(args.log, feSecurityKeywords)
    IN /\ PieceBefore(value.fallback.summary, " errors, ") = ToString(Len(errors))
       /\ PieceBefore(value.fallback.summary, " potential security events in ")
            = ToString(Len(security))
       /\ \A i, j \in 1..Len(issues) :
            (issues[i].type = "Error" /\ issues[j].type = "Warning") => i < j
       /\ \A k \in 1..Len(issues) :
            IF issues[k].type = "Error"
            THEN ExcerptOf(issues[k]) = Excerpt(errors[k])
            ELSE ExcerptOf(issues[k]) = Excerpt(warnings[k - NumType(issues, "Error")])
       /\ (args.log = LoginFailedLine =>
            /\ Len(threats) = 1 /\ ExcerptOf(threats[1]) = Excerpt(LoginFailedLine)
            /\ Len(issues) = 1 /\ issues[1].type = "Error"
            /\ ExcerptOf(issues[1]) = Excerpt(LoginFailedLine))

\* a warning line stands before an error line that is also a security line:
\* the Error entry comes first, and the line is a threat as well
C27_Witness ==
  /\ Has(value, "fallback")
  /\ args.log = Join(<<WarningLine, LoginFailedLine>>)
  /\ Len(value.fallback.securityThreats.arr) = 1
  /\ Len(value.fallback.operationalIssues.arr) = 2
  /\ value.fallback.operationalIssues.arr[1].type = "Error"
  /\ value.fallback.operationalIssues.arr[2].type = "Warning"

(***************************************************************************)
(* The fallback analyzers applied to logs of one line, a line for every    *)
(* keyword and lines with no keyword.                                      *)
(***************************************************************************)
\* String.prototype.toUpperCase
toUpperCase(s) ==
  [i \in 1..Len(s) |->
     IF \E k \in 1..26 : LowerCase[k] = s[i]
     THEN UpperCase[CHOOSE k \in 1..26 : LowerCase[k] = s[i]]
     ELSE s[i]]

\* the keyword sets as the specification lists them
ErrorWords ==
  {<<"e", "r", "r", "o", "r">>, <<"f", "a", "i", "l">>,
   <<"e", "x", "c", "e", "p", "t", "i", "o", "n">>,
   <<"c", "r", "a", "s", "h">>, <<"a", "b", "o", "r", "t">>}

WarningWords ==
  {<<"w", "a", "r", "n">>, <<"w", "a", "r", "n", "i", "n", "g">>,
   <<"c", "a", "u", "t", "i", "o", "n">>}

SecurityWords ==
  {<<"l", "o", "g", "i", "n">>, <<"a", "u", "t", "h">>,
   <<"u", "n", "a", "u", "t", "h", "o", "r", "i", "z", "e", "d">>,
   <<"f", "o", "r", "b", "i", "d", "d", "e", "n">>,
   <<"a", "t", "t", "a", "c", "k">>, <<"b", "r", "e", "a", "c", "h">>,
   <<"h", "a", "c", "k">>, <<"i", "n", "t", "r", "u", "s", "i", "o", "n">>}

\* lines that contain no keyword
PlainLines ==
  {<<"o", "k">>, <<"e", "r", "r", " ", "o", "r">>, <<"W", "A", "R", "M">>,
   <<"l", "o", "g", " ", "i", "n">>, <<"a", "u", "t", " ", "h", "a", "c">>,
   <<"f", "a", "l", "l">>, <<"1", "2", "3">>}

\* each keyword alone, in capitals, inside a longer line, and capitalized
KeywordLines ==
  UNION {{kw, toUpperCase(kw), <<"[", "x">> \o toUpperCase(kw) \o <<"y", "]">>,
          <<"a", " ">> \o toUpperCase(SubSeq(kw, 1, 1)) \o SubSeq(kw, 2, Len(kw)) \o <<".">>} :
           kw \in ErrorWords \cup WarningWords \cup SecurityWords}

InitKeywords ==
  /\ Idle
  /\ args \in {[analyzer |-> a, log |-> l, error |-> TimeoutMessage] :
                 a \in {"fe", "be"}, l \in KeywordLines \cup PlainLines}
  /\ value = None

NextKeywords == Fallback

SpecKeywords == InitKeywords /\ [][NextKeywords]_vars

\* C26: a line gives an Error issue exactly when it contains, in any case,
\* one of error, fail, exception, crash, abort; a Warning issue exactly when
\* it contains warn, warning or caution; a security threat exactly when it
\* contains login, auth, unauthorized, forbidden, attack, breach, hack or
\* intrusion; a line with none of them gives no entry.
C26_KeywordSets ==
  Has(value, "fallback") =>
    /\ NumType(value.fallback.operationalIssues.arr, "Error")
         = Matching(args.log, ErrorWords)
    /\ NumType(value.fallback.operationalIssues.arr, "Warning")
         = Matching(args.log, WarningWords)
    /\ Len(value.fallback.securityThreats.arr) = Matching(args.log, SecurityWords)
    /\ Len(value.fallback.operationalIssues.arr)
         = Matching(args.log, ErrorWords) + Matching(args.log, WarningWords)
    /\ (args.log \in PlainLines =>
          /\ value.fallback.operationalIssues.arr = <<>>
          /\ value.fallback.securityThreats.arr = <<>>)

\* the front end's analyzer matches the keyword sets of the specification
FrontEndKeywordSets == args.analyzer = "fe" => C26_KeywordSets

(***************************************************************************)
(* Two invocations of one implementation in one process.  The event loop   *)
(* runs one of them at a time and changes over where the running one       *)
(* awaits; what an invocation declares with const and let is its own.      *)
(***************************************************************************)
\* the parameter and the locals of the running invocation, with the requests
\* and timers it owns
Locals ==
  [impl |-> impl, input |-> input, pc |-> pc, processedLogs |-> processedLogs,
   attempt |-> attempt, calls |-> calls, lastError |-> lastError, failures |-> failures,
   pending |-> pending, timers |-> timers, delays |-> delays, reply |-> reply,
   outcome |-> outcome, fallbackRuns |-> fallbackRuns]

\* the event loop goes on with the invocation whose locals are l; lastError
\* being a variable of the module, it is the one both invocations write
ResumeSharedLastError(l) ==
  /\ impl' = l.impl
  /\ input' = l.input
  /\ pc' = l.pc
  /\ processedLogs' = l.processedLogs
  /\ attempt' = l.attempt
  /\ calls' = l.calls
  /\ lastError' = lastError
  /\ failures' = l.failures
  /\ pending' = l.pending
  /\ timers' = l.timers
  /\ delays' = l.delays
  /\ reply' = l.reply
  /\ outcome' = l.outcome
  /\ fallbackRuns' = l.fallbackRuns

\* the event loop goes on with the invocation whose locals are l
Resume(l) ==
  /\ impl' = l.impl
  /\ input' = l.input
  /\ pc' = l.pc
  /\ processedLogs' = l.processedLogs
  /\ attempt' = l.attempt
  /\ calls' = l.calls
  /\ lastError' = l.lastError
  /\ failures' = l.failures
  /\ pending' = l.pending
  /\ timers' = l.timers
  /\ delays' = l.delays
  /\ reply' = l.reply
  /\ outcome' = l.outcome
  /\ fallbackRuns' = l.fallbackRuns

\* the running invocation is at an await, or has returned, and the event
\* loop turns to the other one
Switch ==
  /\ parked # None
  /\ running' = 3 - running
  /\ parked' = Locals
  /\ Resume(parked)
  /\ UNCHANGED <<args, value, rateVars, appVars>>

ConcurrentInputs ==
  {<<"E", "R", "R", "O", "R">>, <<"W", "a", "r", "n", NL, "o", "k">>}

\* the replies the AI gives that parse
ConcurrentObjects ==
  {[summary |-> Text("s")],
   [summary |-> Text("s"), securityThreats |-> Arr(<<>>),
    operationalIssues |-> Arr(<<Issue("Error")>>)]}

ConcurrentReply(r) ==
  r = None \/ (Has(r, "text") /\ r.text.kind = "object" /\ ~r.text.wrapped
                               /\ r.text.obj \in ConcurrentObjects)

\* both invocations called, on different texts, neither has run yet
InitConcurrent ==
  /\ impl \in {"fe", "be"}
  /\ input \in ConcurrentInputs
  /\ pc = "start"
  /\ processedLogs = <<>>
  /\ attempt = 0
  /\ calls = 0
  /\ lastError = "null"
  /\ failures = <<>>
  /\ pending = {}
  /\ timers = {}
  /\ delays = <<>>
  /\ reply = None
  /\ outcome = None
  /\ fallbackRuns = 0
  /\ args = None
  /\ value = None
  /\ NoTraffic
  /\ AppIdle
  /\ running = 1
  /\ parked \in {[Locals EXCEPT !.input = i] : i \in ConcurrentInputs \ {input}}

\* a step of the running invocation
Run == Next /\ ConcurrentReply(reply')

NextConcurrent ==
  \/ Run
  \/ Switch

SpecConcurrent == InitConcurrent /\ [][NextConcurrent]_vars

\* the locals of invocation i
StateOf(i) == IF running = i THEN Locals ELSE parked

Last(seq) == seq[Len(seq)]

\* what an invocation returns, by its own input and the replies it got
OutcomeAlone(l) ==
  IF l.reply # None
  THEN Returned(IF l.impl = "fe" THEN feAttemptResult(l.reply).ok
                                 ELSE beAttemptResult(l.reply).ok)
  ELSE IF l.failures # <<>>
  THEN Returned(IF l.impl = "fe"
                THEN feCreateFallbackAnalysis(preprocessLogs(l.input), Last(l.failures))
                ELSE beCreateFallbackAnalysis(l.input))
  ELSE IF Trim(l.input) = <<>>
  THEN Rejected("Log content cannot be empty")
  ELSE Rejected("No valid log content found after preprocessing")

\* the attempt count, the last error and the result of an invocation are
\* those its own input and its own replies give
AsIfAlone(l) ==
  /\ l.attempt = Len(l.failures) + (IF l.pc = "awaiting" THEN 1 ELSE 0)
                                 + (IF l.reply # None THEN 1 ELSE 0)
  /\ l.calls = l.attempt
  /\ l.lastError = (IF l.failures = <<>> THEN "null" ELSE Last(l.failures))
  /\ l.pc = "done" => l.outcome = OutcomeAlone(l)
  /\ l.pc # "done" => l.outcome = None

\* C25: of two invocations running concurrently, in every interleaving of
\* their attempts, timeouts, sleeps and fallbacks, each has the attempt count,
\* the last error and the result it would have had alone with the same input
\* and the same replies.
C25_NoSharedState == AsIfAlone(StateOf(1)) /\ AsIfAlone(StateOf(2))

\* one invocation sleeps after a failed attempt while the other, its first
\* attempt timed out, awaits its second
C25_Witness ==
  /\ StateOf(1).pc = "sleeping"
  /\ StateOf(2).pc = "awaiting"
  /\ StateOf(2).attempt = 2
  /\ StateOf(1).lastError # StateOf(2).lastError
  /\ StateOf(1).input # StateOf(2).input

\* an invocation on its own has that attempt count, last error and result
RunsAlone == pc # "pure" => AsIfAlone(Locals)

(***************************************************************************)
(* App: handleAnalyze and handleReanalyzeHistory.  A call is "idle" before *)
(* it is made, "returned" when a guard sent it back, "analysis" while it   *)
(* awaits performAnalysis, "saving" while it awaits saveAnalysis, and      *)
(* "finished" after its finally block.                                     *)
(***************************************************************************)
Contents == {<<>>, <<" ", NL>>, <<"E", "R", "R", "O", "R">>}

\* the call made next
NextCall == CHOOSE c \in Calls : handlers[c] = "idle" /\ \A d \in Calls : handlers[d] = "idle" => c <= d

\* lines 193-203: the guards, then the flag set and the last outcome cleared
handleAnalyzeTo(c, loggedIn, contentToAnalyze) ==
  IF ~loggedIn
  THEN /\ error' = "You must be logged in to analyze logs."
       /\ handlers' = [handlers EXCEPT ![c] = "returned"]
       /\ UNCHANGED <<isAnalyzing, analysisResult>>
  ELSE IF Trim(contentToAnalyze) = <<>>
  THEN /\ error' = "Log content cannot be empty."
       /\ handlers' = [handlers EXCEPT ![c] = "returned"]
       /\ UNCHANGED <<isAnalyzing, analysisResult>>
  ELSE /\ isAnalyzing' = TRUE
       /\ error' = "null"
       /\ analysisResult' = Null
       /\ handlers' = [handlers EXCEPT ![c] = "analysis"]

\* the Analyze button: handleAnalyze(logContent)
handleAnalyze ==
  /\ pc = "pure"
  /\ \E c \in Calls : handlers[c] = "idle"
  /\ \E loggedIn \in BOOLEAN, contentToAnalyze \in Contents :
       handleAnalyzeTo(NextCall, loggedIn, contentToAnalyze)
  /\ UNCHANGED <<history, activeHistoryId, pipeVars, args, value, rateVars, concVars>>

\* lines 240-248: the entry looked up, and handleAnalyze called on its text;
\* an entry was saved from a text that passed the guards
handleReanalyzeHistory ==
  /\ pc = "pure"
  /\ \E c \in Calls : handlers[c] = "idle"
  /\ \E id \in Calls, loggedIn \in BOOLEAN :
       IF \E k \in 1..Len(history) : history[k] = id
       THEN /\ activeHistoryId' = Null
            /\ handleAnalyzeTo(NextCall, loggedIn, <<"E", "R", "R", "O", "R">>)
       ELSE /\ handlers' = [handlers EXCEPT ![NextCall] = "returned"]
            /\ UNCHANGED <<isAnalyzing, analysisResult, error, activeHistoryId>>
  /\ UNCHANGED <<history, pipeVars, args, value, rateVars, concVars>>

\* lines 206-209: performAnalysis resolved, the result shown, saveAnalysis called
AnalysisResolves ==
  /\ \E c \in Calls :
       /\ handlers[c] = "analysis"
       /\ analysisResult' = [of |-> c]
       /\ handlers' = [handlers EXCEPT ![c] = "saving"]
  /\ UNCHANGED <<isAnalyzing, error, history, activeHistoryId, pipeVars, args, value,
                 rateVars, concVars>>

\* lines 213-217: performAnalysis rejected; catch, then finally
AnalysisRejects ==
  /\ \E c \in Calls :
       /\ handlers[c] = "analysis"
       /\ error' = "Analysis failed: analysis"
       /\ isAnalyzing' = FALSE
       /\ handlers' = [handlers EXCEPT ![c] = "finished"]
  /\ UNCHANGED <<analysisResult, history, activeHistoryId, pipeVars, args, value,
                 rateVars, concVars>>

\* lines 210-211 and 215-217: saveAnalysis resolved, the entry listed; finally
SaveResolves ==
  /\ \E c \in Calls :
       /\ handlers[c] = "saving"
       /\ history' = <<c>> \o history
       /\ activeHistoryId' = [id |-> c]
       /\ isAnalyzing' = FALSE
       /\ handlers' = [handlers EXCEPT ![c] = "finished"]
  /\ UNCHANGED <<analysisResult, error, pipeVars, args, value, rateVars, concVars>>

\* lines 213-217: saveAnalysis rejected; catch, then finally
SaveRejects ==
  /\ \E c \in Calls :
       /\ handlers[c] = "saving"
       /\ error' = "Analysis failed: save"
       /\ isAnalyzing' = FALSE
       /\ handlers' = [handlers EXCEPT ![c] = "finished"]
  /\ UNCHANGED <<analysisResult, history, activeHistoryId, pipeVars, args, value,
                 rateVars, concVars>>

InitApp ==
  /\ Idle
  /\ args = None
  /\ value = None

NextApp ==
  \/ handleAnalyze
  \/ handleReanalyzeHistory
  \/ AnalysisResolves
  \/ AnalysisRejects
  \/ SaveResolves
  \/ SaveRejects

SpecApp == InitApp /\ [][NextApp]_vars

\* call c leaves its finally block in this step
Finishes(c) == handlers[c] # "finished" /\ handlers'[c] = "finished"

\* C29: when a handleAnalyze call that started an analysis has finished,
\* exactly one of analysisResult and error is set, never both and never
\* neither, also when the analysis succeeds and saving the history entry
\* fails, and when a re-analyze was started while another analysis was
\* running; and the call clears the isAnalyzing flag.
C29_ExactlyOneOutcome ==
  [][\A c \in Calls :
       Finishes(c) =>
         /\ ~isAnalyzing'
         /\ (analysisResult' # Null) # (error' # "null")]_vars

\* a call that finishes clears the isAnalyzing flag
FinishedCallClearsFlag == [][\A c \in Calls : Finishes(c) => ~isAnalyzing']_vars

\* a call made when no other has been made, and whose saveAnalysis does not
\* fail, leaves exactly one of analysisResult and error set
LoneCallWithoutSaveFailure ==
  [][\A c \in Calls :
       (/\ Finishes(c)
        /\ error' # "Analysis failed: save"
        /\ \A d \in Calls \ {c} : handlers[d] = "idle")
       => (analysisResult' # Null) # (error' # "null")]_vars

(***************************************************************************)
(* The per-user rate limiter of analysis creation (back end middleware).   *)
(* args holds the arguments rateLimitByUser was created with, value what   *)
(* the middleware did with the latest request.                             *)
(***************************************************************************)
\* req.user._id of the users sending requests
Users == {"u1", "u2"}

InitRate ==
  /\ Idle
  /\ args = [maxRequests |-> MAX_REQUESTS, windowMs |-> WINDOW_MS]
  /\ value = None

\* time passes between two requests
Tick ==
  /\ pc = "pure"
  /\ Has(args, "maxRequests")
  /\ now < MaxClock
  /\ now' = now + 1
  /\ UNCHANGED <<pipeVars, args, value, userRequests, served, concVars, appVars>>

\* the middleware letting a user's count reach maxRequests + 1
rateLimitByUserOneMore(userId) ==
  /\ pc = "pure"
  /\ Has(args, "maxRequests")
  /\ Len(served) < MaxServed
  /\ IF ~Has(userRequests, userId) \/ now > userRequests[userId].resetTime
     THEN /\ userRequests' = (userId :> [count |-> 1, resetTime |-> now + args.windowMs])
                               @@ userRequests
          /\ value' = [next |-> TRUE]
     ELSE IF userRequests[userId].count > args.maxRequests
     THEN /\ value' = [status |-> 429, message |-> "Rate limit exceeded"]
          /\ UNCHANGED userRequests
     ELSE /\ userRequests' = [userRequests EXCEPT ![userId].count = @ + 1]
          /\ value' = [next |-> TRUE]
  /\ served' = Append(served, [user |-> userId, at |-> now, passed |-> Has(value', "next")])
  /\ UNCHANGED <<pipeVars, args, now, concVars, appVars>>

\* lines 140-162: one request of the user goes through the middleware
rateLimitByUser(userId) ==
  /\ pc = "pure"
  /\ Has(args, "maxRequests")
  /\ Len(served) < MaxServed
  /\ IF ~Has(userRequests, userId) \/ now > userRequests[userId].resetTime
     THEN /\ userRequests' = (userId :> [count |-> 1, resetTime |-> now + args.windowMs])
                               @@ userRequests
          /\ value' = [next |-> TRUE]
     ELSE IF userRequests[userId].count >= args.maxRequests
     THEN /\ value' = [status |-> 429, message |-> "Rate limit exceeded"]
          /\ UNCHANGED userRequests
     ELSE /\ userRequests' = [userRequests EXCEPT ![userId].count = @ + 1]
          /\ value' = [next |-> TRUE]
  /\ served' = Append(served, [user |-> userId, at |-> now, passed |-> Has(value', "next")])
  /\ UNCHANGED <<pipeVars, args, now, concVars, appVars>>

Request == \E userId \in Users : rateLimitByUser(userId)

NextRate ==
  \/ Tick
  \/ Request

SpecRate == InitRate /\ [][NextRate]_vars

\* the requests of one user, in the order they were served
ServedOf(u) ==
  LET Mine(r) == r.user = u
  IN SelectSeq(served, Mine)

\* the time at which the window of the i-th request of rs began: the first
\* request opens a window, and so does each request later than the reset time
\* of the window before it
RECURSIVE WindowStart(_, _)
WindowStart(rs, i) ==
  IF i = 1 THEN rs[1].at
  ELSE LET before == WindowStart(rs, i - 1)
       IN IF rs[i].at > before + WINDOW_MS THEN rs[i].at ELSE before

OpensWindow(rs, i) == i = 1 \/ rs[i].at > WindowStart(rs, i - 1) + WINDOW_MS

\* the requests before the i-th that fell in its window and were passed on
PassedBefore(rs, i) ==
  Cardinality({j \in 1..(i - 1) :
                 WindowStart(rs, j) = WindowStart(rs, i) /\ rs[j].passed})

\* C17: of the requests of one user in one window the first MAX_REQUESTS are
\* passed on and every further one is rejected; the first request after the
\* reset time of a window is passed on and starts a window with count 1.
C17_RateLimitPerWindow ==
  \A u \in Users :
    LET rs == ServedOf(u)
    IN /\ \A i \in 1..Len(rs) :
            /\ rs[i].passed <=> PassedBefore(rs, i) < MAX_REQUESTS
            /\ PassedBefore(rs, i) <= MAX_REQUESTS
            /\ OpensWindow(rs, i) => rs[i].passed
       /\ (rs # <<>> /\ OpensWindow(rs, Len(rs))) =>
            /\ Has(userRequests, u)
            /\ userRequests[u].count = 1
            /\ userRequests[u].resetTime = rs[Len(rs)].at + WINDOW_MS
       /\ (served # <<>> /\ served[Len(served)].user = u) =>
            (Has(value, "next") <=> rs[Len(rs)].passed)

\* a user had MAX_REQUESTS requests passed on and the next one rejected in
\* one window, and the first request after the reset time passed on
C17_Witness ==
  \E u \in Users :
    LET rs == ServedOf(u)
    IN /\ Len(rs) = MAX_REQUESTS + 2
       /\ \A i \in 1..MAX_REQUESTS : rs[i].passed
       /\ ~rs[MAX_REQUESTS + 1].passed
       /\ WindowStart(rs, MAX_REQUESTS + 1) = rs[1].at
       /\ OpensWindow(rs, MAX_REQUESTS + 2)
       /\ rs[MAX_REQUESTS + 2].passed
       /\ userRequests[u].count = 1

(***************************************************************************)
(* The validator of risk scores applied on its own.                        *)
(***************************************************************************)
ScoreStrings ==
  {<<>>,
   <<"7", "5">>,
   <<"1", "5", "0">>,
   <<"-", "5">>,
   <<" ", "4", "2">>,
   <<"5", "0", ".", "7">>,
   <<"a", "b", "c">>,
   <<"1", "2", "a", "b", "c">>}

\* what a reply may put in riskScore: a number, whole or not, a string, null
ScoreValues ==
  {Num(n) : n \in (0 - ScoreMargin)..(100 + ScoreMargin)}
  \cup {Half(n) : n \in (0 - ScoreMargin)..(100 + ScoreMargin)}
  \cup {[str |-> t] : t \in ScoreStrings}
  \cup {NullElement}

InitScore ==
  /\ Idle
  /\ args \in {[threat |-> Threat("Low") @@ [riskScore |-> v]] : v \in ScoreValues}
              \cup {[threat |-> Threat("Low")]}
  /\ value = None

Validate ==
  /\ pc = "pure"
  /\ Has(args, "threat")
  /\ value = None
  /\ value' = [riskScore |-> validateRiskScore(args.threat)]
  /\ UNCHANGED <<pipeVars, args, rateVars, concVars, appVars>>

NextScore == Validate

SpecScore == InitScore /\ [][NextScore]_vars

IsInteger(x) == IsNumber(x) /\ ~Has(x, "half")

\* the score of the reply's threat is missing, null, or a string that is not
\* the text of a number
IsNonNumeric(o) ==
  \/ ~Has(o, "riskScore")
  \/ Has(o.riskScore, "null")
  \/ /\ Has(o.riskScore, "str")
     /\ \/ o.riskScore.str = <<>>
        \/ \E k \in 1..Len(o.riskScore.str) :
             ~IsDigit(o.riskScore.str[k]) /\ o.riskScore.str[k] \notin {"-", "+", ".", " "}

\* C21: the validated riskScore is an integer from 0 to 100: a number below
\* 0 becomes 0, a number above 100 becomes 100, an integer in the range is
\* kept, and a missing or non-numeric value becomes 0.
C21_RiskScoreClamped ==
  Has(value, "riskScore") =>
    /\ IsInteger(value.riskScore)
    /\ value.riskScore.num \in 0..100
    /\ (Has(args.threat, "riskScore") /\ IsNumber(args.threat.riskScore)) =>
         /\ Twice(args.threat.riskScore) < 0 => value.riskScore = Num(0)
         /\ Twice(args.threat.riskScore) > 200 => value.riskScore = Num(100)
         /\ (IsInteger(args.threat.riskScore) /\ args.threat.riskScore.num \in 0..100) =>
              value.riskScore = args.threat.riskScore
    /\ IsNonNumeric(args.threat) => value.riskScore = Num(0)

\* the score is a whole number, or it is missing or null
IsWholeOrMissing(o) ==
  \/ ~Has(o, "riskScore")
  \/ Has(o.riskScore, "null")
  \/ IsInteger(o.riskScore)

\* whole-number scores are clamped and missing ones become 0
WholeScoresClamped == IsWholeOrMissing(args.threat) => C21_RiskScoreClamped

====
